---- MODULE Spec2Model ----
(***************************************************************************)
(* Model of the LED driver of ledbetter-firmware (src/driver.rs).          *)
(*                                                                         *)
(* Two kinds of threads take part: the foreground thread, which calls      *)
(* start/stop/play/pause on a DriverImpl, and the worker threads spawned   *)
(* by start, which run run_driver.  The foreground blocks in the           *)
(* rendezvous send of a control action and in the join of a worker, so     *)
(* each Driver operation is split at exactly those blocking points.  The   *)
(* production build (cfg(not(test))) is modelled: a panicked worker is     *)
(* logged at join.                                                         *)
(*                                                                         *)
(* The control client (src/control.rs, src/jsonrpc.rs) runs on the         *)
(* foreground thread: it connects, reads one websocket frame at a time,    *)
(* dispatches JSON-RPC requests to the Controller, which calls the Driver, *)
(* and reconnects after every error.  Spec is the Driver under any caller; *)
(* CtrlSpec is the program of main.rs, where the control client is the     *)
(* only caller of the Driver.                                              *)
(***************************************************************************)
EXTENDS Integers, Sequences, FiniteSets, TLC

\* ---------------------------------------------------------------- bounds
MaxWorkers == 2      \* start calls explored (one worker thread per start)
MaxTimeouts == 2     \* render deadlines explored per worker
MaxStrips == 2       \* strips in a layout
MaxStripLen == 2     \* pixels in a strip
MaxAttempts == 2     \* connection attempts explored
MaxMsgs == 2         \* websocket frames received, over all sessions

\* ------------------------------------------------------------- constants
None == 0                                   \* Option::None of a handle or sender
Workers == 1..MaxWorkers                    \* identities of spawned threads
Outcomes == {"Ok", "Err", "Panic"}          \* of a call into sink, engine or guest
WasmBins == {"empty", "module"}             \* wasm_bin: vec![] or a real module
PixelZero == <<0, 0, 0>>                    \* PixelVal::new(0, 0, 0)
Colours == {PixelZero, <<255, 0, 0>>}       \* values a guest paints a frame with

\* LayoutConfig.pixel_locations built from strip lengths; pixel j of strip i
\* sits at the location <<i, j>>.
LayoutOf(lens) == [i \in 1..Len(lens) |-> [j \in 1..lens[i] |-> <<i, j>>]]

Layouts ==
  {LayoutOf(lens) : lens \in UNION {[1..n -> 0..MaxStripLen] : n \in 0..MaxStrips}}

\* ------------------------------------------------------- pure functions
RECURSIVE Flatten(_)
Flatten(ss) == IF ss = <<>> THEN <<>> ELSE Head(ss) \o Flatten(Tail(ss))

\* leds_iter: the frame handed to the sink, strip-major and pixel-minor.
leds_iter(pixels) == Flatten(pixels)

\* TrivialProgram::new(layout, val).pixels(): every pixel of every strip is val.
TrivialProgram(lay, val) == [i \in 1..Len(lay) |-> [j \in 1..Len(lay[i]) |-> val]]

\* make_pixels_array followed by update_pixel_vals, for a guest that paints
\* every pixel with the colour c.
make_pixels_array(lay, c) == [i \in 1..Len(lay) |-> [j \in 1..Len(lay[i]) |-> c]]

\* ------------------------------------------------------------------ state
VARIABLES
  layout,         \* DriverImpl.layout
  status,         \* DriverImpl.status
  thread_handle,  \* DriverImpl.thread_handle: None or a worker
  ctrl_sender,    \* DriverImpl.ctrl_sender: None or the worker holding the receiver
  fgpc,           \* where the foreground thread is
  fgop,           \* the Driver operation the foreground is inside
  wasm_bin,       \* argument of the start in progress
  loc_handle,     \* local thread_handle of start / stop
  loc_sender,     \* local sender of start / stop
  prev_status,    \* status when the most recent Driver operation was called
  exit_send,      \* outcome of send(Exit) in the most recent Driver operation
  lastRet,        \* what the most recent Driver operation returned
  spawned,        \* number of threads spawned so far
  worker,         \* per worker thread: position, locals of run_driver, sink log
  cpc,            \* where the control client is
  attempts,       \* calls of connect so far
  msgs,           \* frames received so far
  frame_in,       \* the frame the current process_one received
  frame_out,      \* the send_message calls of the current process_one
  text_in,        \* Text frames received in this session
  text_out,       \* Text frames handed to send_message in this session
  handler,        \* the Controller handler invoked for frame_in
  called,         \* the Driver operation invoked for frame_in
  last_err,       \* the error that ended the most recent session
  slept,          \* seconds of the most recent thread::sleep
  subject,        \* a JSON-RPC message handed to validate
  verdict,        \* what validate returned for it
  guest,          \* the guest module handed to WasmProgram::new
  wp_pixels,      \* WasmProgram.pixels
  wp_calls,       \* guest functions called by the most recent new or tick
  wp_ret,         \* what the most recent new or tick returned
  wp_ticks,       \* calls of WasmProgram::tick so far
  render_freq,    \* DriverImpl.render_freq
  render_period,  \* render_period of start, run_driver and driver_loop, in ms
  clock,          \* Instant::now(), in ms
  render_at,      \* render_at of driver_loop, in ms
  timeout,        \* timeout of driver_loop, in ms
  dl              \* driver_loop under the clock: position, playing, history

ctlvars == <<cpc, attempts, msgs, frame_in, frame_out, text_in, text_out,
             handler, called, last_err, slept>>

\* State of the library functions exercised on their own.
wasmvars == <<guest, wp_pixels, wp_calls, wp_ret, wp_ticks>>

loopvars == <<render_freq, render_period, clock, render_at, timeout, dl>>

libvars == <<subject, verdict, wasmvars, loopvars>>

vars == <<layout, status, thread_handle, ctrl_sender, fgpc, fgop, wasm_bin,
          loc_handle, loc_sender, prev_status, exit_send, lastRet, spawned, worker,
          ctlvars, libvars>>

fgvars == <<status, thread_handle, ctrl_sender, fgpc, fgop, wasm_bin,
            loc_handle, loc_sender, prev_status, exit_send, lastRet, spawned>>

\* No frame received yet in this session.
NoFrame == [kind |-> "none"]

NoWorker ==
  [pc |-> "unspawned", bin |-> "none", rx |-> FALSE, sink |-> FALSE,
   prog |-> FALSE, playing |-> FALSE, pixels |-> <<>>, k |-> 0, ticks |-> 0,
   gotPlay |-> FALSE, gotExit |-> FALSE, loopResult |-> "none",
   result |-> "none", writes |-> <<>>, factory_calls |-> 0]

\* No message under validation.
NoSubject == [side |-> "none"]

\* No guest module loaded and no WasmProgram constructed.
NoGuest == [valid |-> FALSE, imports |-> {}, exports |-> {}, sig_ok |-> TRUE]
NoReturn == [op |-> "none", kind |-> "none", err |-> "none"]

WasmIdle ==
  /\ guest = NoGuest
  /\ wp_pixels = <<>>
  /\ wp_calls = <<>>
  /\ wp_ret = NoReturn
  /\ wp_ticks = 0

\* driver_loop before start was called: playing and render_at as lines
\* 190-191 initialise them.
NoLoop ==
  [pc |-> "start", playing |-> FALSE, timeouts |-> 0, first_at |-> 0,
   wait_from |-> 0, events |-> <<>>, result |-> "none"]

LoopIdle ==
  /\ render_freq = 1
  /\ render_period = 0
  /\ clock = 0
  /\ render_at = 0
  /\ timeout = 0
  /\ dl = NoLoop

\* The library functions at rest.
LibIdle ==
  /\ subject = NoSubject
  /\ verdict = "none"
  /\ WasmIdle
  /\ LoopIdle

DriverInit ==
  /\ layout \in Layouts
  /\ status = "NotPlaying"
  /\ thread_handle = None
  /\ ctrl_sender = None
  /\ fgpc = "idle"
  /\ fgop = "none"
  /\ wasm_bin = "none"
  /\ loc_handle = None
  /\ loc_sender = None
  /\ prev_status = "NotPlaying"
  /\ exit_send = "none"
  /\ lastRet = [op |-> "none", kind |-> "none", val |-> "none"]
  /\ spawned = 0
  /\ worker = [w \in Workers |-> NoWorker]
  /\ cpc = "connect"
  /\ attempts = 0
  /\ msgs = 0
  /\ frame_in = NoFrame
  /\ frame_out = <<>>
  /\ text_in = 0
  /\ text_out = 0
  /\ handler = "none"
  /\ called = "none"
  /\ last_err = "none"
  /\ slept = 0

Init == DriverInit /\ LibIdle

\* ------------------------------------------------------- channel helpers
\* A thread is running from its spawn until its closure has returned or unwound.
Alive(w) == worker[w].pc \notin {"unspawned", "done", "joined"}

\* sync_channel(0): a send completes only while the receiver is inside
\* recv_timeout.
send_ready(w) == worker[w].pc = "recv"

\* A send fails once the Receiver has been dropped.
send_fails(w) == ~worker[w].rx

\* The Sender of worker w's channel still exists somewhere.
sender_alive(w) == ctrl_sender = w \/ loc_sender = w

\* Variant of the match arms in which Exit does not break out of the loop.
on_ctrl_exit_ignored(w, act) ==
  CASE act = "Play"  -> [worker[w] EXCEPT !.playing = TRUE, !.gotPlay = TRUE]
    [] act = "Pause" -> [worker[w] EXCEPT !.playing = FALSE]
    [] act = "Exit"  -> [worker[w] EXCEPT !.gotExit = TRUE]

\* driver_loop's match arms for a received CtrlAction.
on_ctrl(w, act) ==
  CASE act = "Play"  -> [worker[w] EXCEPT !.playing = TRUE, !.gotPlay = TRUE]
    [] act = "Pause" -> [worker[w] EXCEPT !.playing = FALSE]
    [] act = "Exit"  -> [worker[w] EXCEPT !.gotExit = TRUE, !.loopResult = "Ok",
                                          !.rx = FALSE, !.pc = "clear"]

\* ---------------------------------------------------- foreground helpers
Return(op, kind, val) ==
  /\ fgpc' = "idle"
  /\ fgop' = "none"
  /\ wasm_bin' = "none"
  /\ loc_handle' = None
  /\ loc_sender' = None
  /\ lastRet' = [op |-> op, kind |-> kind, val |-> val]

\* A thread that has finished and been joined leaves nothing behind: its
\* result was consumed by the join and its LedSink was dropped with it.
Joined == [NoWorker EXCEPT !.pc = "joined"]

\* start, lines 81-88: new channel, spawn the thread, then block in send.
\* The records of the threads that finished earlier are discarded here.
spawn(bin) ==
  /\ spawned' = spawned + 1
  /\ worker' = [w \in Workers |->
                  IF w = spawned + 1
                    THEN [NoWorker EXCEPT !.pc = "factory", !.bin = bin, !.rx = TRUE]
                  ELSE IF worker[w].pc = "done"
                    THEN [Joined EXCEPT !.factory_calls = worker[w].factory_calls]
                  ELSE worker[w]]
  /\ loc_handle' = spawned + 1
  /\ loc_sender' = spawned + 1
  /\ fgpc' = "start_send"

\* ------------------------------------------------------ Driver operations
\* Variant of start without the leading self.stop().
start_without_stop(bin) ==
  /\ fgpc = "idle"
  /\ prev_status' = status
  /\ exit_send' = "none"
  /\ spawned < MaxWorkers
  /\ fgop' = "start"
  /\ wasm_bin' = bin
  /\ spawn(bin)
  /\ UNCHANGED <<layout, status, thread_handle, ctrl_sender, lastRet>>

\* start up to its first blocking point: self.stop() takes both fields; with
\* no worker it falls through to the spawn.
start(bin) ==
  /\ fgpc = "idle"
  /\ prev_status' = status
  /\ exit_send' = "none"
  /\ spawned < MaxWorkers
  /\ fgop' = "start"
  /\ wasm_bin' = bin
  /\ thread_handle' = None
  /\ ctrl_sender' = None
  /\ IF thread_handle # None /\ ctrl_sender # None
       THEN /\ loc_handle' = thread_handle
            /\ loc_sender' = ctrl_sender
            /\ fgpc' = "stop_send"
            /\ UNCHANGED <<spawned, worker>>
       ELSE spawn(bin)
  /\ UNCHANGED <<layout, status, lastRet>>

\* Variant of stop that takes the handle and leaves the sender in its field.
stop_keeps_sender ==
  /\ fgpc = "idle"
  /\ prev_status' = status
  /\ exit_send' = "none"
  /\ thread_handle' = None
  /\ ctrl_sender' = ctrl_sender
  /\ IF thread_handle # None /\ ctrl_sender # None
       THEN /\ fgop' = "stop"
            /\ loc_handle' = thread_handle
            /\ loc_sender' = ctrl_sender
            /\ fgpc' = "stop_send"
            /\ UNCHANGED <<wasm_bin, lastRet>>
       ELSE Return("stop", "Ok", status)
  /\ UNCHANGED <<layout, status, spawned, worker>>

\* stop up to its first blocking point.
stop ==
  /\ fgpc = "idle"
  /\ prev_status' = status
  /\ exit_send' = "none"
  /\ thread_handle' = None
  /\ ctrl_sender' = None
  /\ IF thread_handle # None /\ ctrl_sender # None
       THEN /\ fgop' = "stop"
            /\ loc_handle' = thread_handle
            /\ loc_sender' = ctrl_sender
            /\ fgpc' = "stop_send"
            /\ UNCHANGED <<wasm_bin, lastRet>>
       ELSE Return("stop", "Ok", status)
  /\ UNCHANGED <<layout, status, spawned, worker>>

\* ctrl_sender.send(Exit) meets the worker's recv_timeout.
stop_send_ok ==
  /\ fgpc = "stop_send"
  /\ UNCHANGED prev_status
  /\ exit_send' = "Ok"
  /\ send_ready(loc_sender)
  /\ worker' = [worker EXCEPT ![loc_sender] = on_ctrl(loc_sender, "Exit")]
  /\ fgpc' = "stop_join"
  /\ UNCHANGED <<layout, status, thread_handle, ctrl_sender, fgop, wasm_bin,
                 loc_handle, loc_sender, lastRet, spawned>>

\* Variant of stop that returns when the send of Exit fails, without joining
\* the thread and without touching status.
stop_send_err_gives_up ==
  /\ fgpc = "stop_send"
  /\ UNCHANGED prev_status
  /\ exit_send' = "Err"
  /\ send_fails(loc_sender)
  /\ IF fgop = "start"
       THEN /\ fgpc' = "stop_join"
            /\ UNCHANGED <<fgop, wasm_bin, loc_handle, loc_sender, lastRet>>
       ELSE Return(fgop, "Ok", status)
  /\ UNCHANGED <<layout, status, thread_handle, ctrl_sender, spawned, worker>>

\* ctrl_sender.send(Exit) fails: logged, not returned.
stop_send_err ==
  /\ fgpc = "stop_send"
  /\ UNCHANGED prev_status
  /\ exit_send' = "Err"
  /\ send_fails(loc_sender)
  /\ fgpc' = "stop_join"
  /\ UNCHANGED <<layout, status, thread_handle, ctrl_sender, fgop, wasm_bin,
                 loc_handle, loc_sender, lastRet, spawned, worker>>

\* Variant of stop_join that does not wait for the thread to finish.
stop_join_detached ==
  /\ fgpc = "stop_join"
  /\ UNCHANGED <<prev_status, exit_send>>
  /\ status' = "NotPlaying"
  /\ IF fgop = "start"
       THEN /\ spawn(wasm_bin)
            /\ UNCHANGED <<fgop, wasm_bin, lastRet>>
       ELSE /\ Return(fgop, "Ok", "NotPlaying")
            /\ UNCHANGED <<spawned, worker>>
  /\ UNCHANGED <<layout, thread_handle, ctrl_sender>>

\* thread_handle.join() returns; every outcome is at most logged; status is
\* set to NotPlaying; then the caller of stop continues.
stop_join ==
  /\ fgpc = "stop_join"
  /\ UNCHANGED <<prev_status, exit_send>>
  /\ worker[loc_handle].pc = "done"
  /\ status' = "NotPlaying"
  /\ IF fgop = "start"
       THEN /\ spawn(wasm_bin)
            /\ UNCHANGED <<fgop, wasm_bin, lastRet>>
       ELSE /\ Return(fgop, "Ok", "NotPlaying")
            /\ UNCHANGED <<spawned, worker>>
  /\ UNCHANGED <<layout, thread_handle, ctrl_sender>>

\* Variant of the handshake for a channel with a buffer: the send completes
\* as soon as the receiver exists.
start_send_ok_buffered ==
  /\ fgpc = "start_send"
  /\ UNCHANGED <<prev_status, exit_send>>
  /\ worker[loc_sender].rx
  /\ worker' = [worker EXCEPT ![loc_sender] = on_ctrl(loc_sender, "Play")]
  /\ thread_handle' = loc_handle
  /\ ctrl_sender' = loc_sender
  /\ status' = "Playing"
  /\ Return("start", "Ok", "Playing")
  /\ UNCHANGED <<layout, spawned>>

\* start: sender.send(Play) meets the worker's recv_timeout.
start_send_ok ==
  /\ fgpc = "start_send"
  /\ UNCHANGED <<prev_status, exit_send>>
  /\ send_ready(loc_sender)
  /\ worker' = [worker EXCEPT ![loc_sender] = on_ctrl(loc_sender, "Play")]
  /\ thread_handle' = loc_handle
  /\ ctrl_sender' = loc_sender
  /\ status' = "Playing"
  /\ Return("start", "Ok", "Playing")
  /\ UNCHANGED <<layout, spawned>>

\* start: sender.send(Play) fails because the receiver is gone.
start_send_err ==
  /\ fgpc = "start_send"
  /\ UNCHANGED <<prev_status, exit_send>>
  /\ send_fails(loc_sender)
  /\ fgpc' = "start_join"
  /\ UNCHANGED <<layout, status, thread_handle, ctrl_sender, fgop, wasm_bin,
                 loc_handle, loc_sender, lastRet, spawned, worker>>

\* What start returns after joining a worker whose handshake failed.
start_join_result(res) ==
  CASE res = "Ok"    -> [kind |-> "Ok", val |-> status]
    [] res = "Panic" -> [kind |-> "Ok", val |-> status]
    [] OTHER         -> [kind |-> "Err", val |-> res]

\* Variant that swallows the worker's error like the other two arms.
start_join_swallow ==
  /\ fgpc = "start_join"
  /\ UNCHANGED <<prev_status, exit_send>>
  /\ worker[loc_handle].pc = "done"
  /\ Return("start", "Ok", status)
  /\ UNCHANGED <<layout, status, thread_handle, ctrl_sender, spawned, worker>>

\* start: thread_handle.join() after the failed handshake.
start_join ==
  /\ fgpc = "start_join"
  /\ UNCHANGED <<prev_status, exit_send>>
  /\ worker[loc_handle].pc = "done"
  /\ LET r == start_join_result(worker[loc_handle].result)
     IN Return("start", r.kind, r.val)
  /\ UNCHANGED <<layout, status, thread_handle, ctrl_sender, spawned, worker>>

\* play / pause up to the send.
\* Variant of play that records Playing before looking for a worker.
play_sets_status ==
  /\ fgpc = "idle"
  /\ prev_status' = status
  /\ exit_send' = "none"
  /\ status' = "Playing"
  /\ IF ctrl_sender # None
       THEN /\ fgpc' = "send"
            /\ fgop' = "play"
            /\ UNCHANGED <<wasm_bin, loc_handle, loc_sender, lastRet>>
       ELSE Return("play", "Ok", "Playing")
  /\ UNCHANGED <<layout, thread_handle, ctrl_sender, spawned, worker>>

play ==
  /\ fgpc = "idle"
  /\ prev_status' = status
  /\ exit_send' = "none"
  /\ IF ctrl_sender # None
       THEN /\ fgpc' = "send"
            /\ fgop' = "play"
            /\ UNCHANGED <<wasm_bin, loc_handle, loc_sender, lastRet>>
       ELSE Return("play", "Ok", status)
  /\ UNCHANGED <<layout, status, thread_handle, ctrl_sender, spawned, worker>>

pause ==
  /\ fgpc = "idle"
  /\ prev_status' = status
  /\ exit_send' = "none"
  /\ IF ctrl_sender # None
       THEN /\ fgpc' = "send"
            /\ fgop' = "pause"
            /\ UNCHANGED <<wasm_bin, loc_handle, loc_sender, lastRet>>
       ELSE Return("pause", "Ok", status)
  /\ UNCHANGED <<layout, status, thread_handle, ctrl_sender, spawned, worker>>

\* The action play / pause sends and the status it records on success.
ctrl_of(op) == IF op = "play" THEN "Play" ELSE "Pause"
status_of(op) == IF op = "play" THEN "Playing" ELSE "Paused"

\* Variant of send_ok that records Paused for both operations.
send_ok_always_paused ==
  /\ fgpc = "send"
  /\ UNCHANGED <<prev_status, exit_send>>
  /\ send_ready(ctrl_sender)
  /\ worker' = [worker EXCEPT ![ctrl_sender] = on_ctrl(ctrl_sender, ctrl_of(fgop))]
  /\ status' = "Paused"
  /\ Return(fgop, "Ok", "Paused")
  /\ UNCHANGED <<layout, thread_handle, ctrl_sender, spawned>>

\* Variant of send_ok for a channel with a buffer: the send completes while
\* the worker is still busy and the action is picked up later, if ever.
send_ok_buffered ==
  /\ fgpc = "send"
  /\ UNCHANGED <<prev_status, exit_send>>
  /\ worker[ctrl_sender].rx
  /\ status' = status_of(fgop)
  /\ Return(fgop, "Ok", status_of(fgop))
  /\ UNCHANGED <<layout, thread_handle, ctrl_sender, spawned, worker>>

\* play / pause: the send meets the worker's recv_timeout.
send_ok ==
  /\ fgpc = "send"
  /\ UNCHANGED <<prev_status, exit_send>>
  /\ send_ready(ctrl_sender)
  /\ worker' = [worker EXCEPT ![ctrl_sender] = on_ctrl(ctrl_sender, ctrl_of(fgop))]
  /\ status' = status_of(fgop)
  /\ Return(fgop, "Ok", status_of(fgop))
  /\ UNCHANGED <<layout, thread_handle, ctrl_sender, spawned>>

\* Variant of send_err that only logs the failed send and returns the status.
send_err_keep_status ==
  /\ fgpc = "send"
  /\ UNCHANGED <<prev_status, exit_send>>
  /\ send_fails(ctrl_sender)
  /\ Return(fgop, "Ok", status)
  /\ UNCHANGED <<layout, status, thread_handle, ctrl_sender, spawned, worker>>

\* play / pause: the send fails, self.stop() is entered.
send_err ==
  /\ fgpc = "send"
  /\ UNCHANGED <<prev_status, exit_send>>
  /\ send_fails(ctrl_sender)
  /\ thread_handle' = None
  /\ ctrl_sender' = None
  /\ IF thread_handle # None /\ ctrl_sender # None
       THEN /\ loc_handle' = thread_handle
            /\ loc_sender' = ctrl_sender
            /\ fgpc' = "stop_send"
            /\ UNCHANGED <<fgop, wasm_bin, lastRet>>
       ELSE Return(fgop, "Ok", status)
  /\ UNCHANGED <<layout, status, spawned, worker>>

\* The Driver goes out of scope: the handle is dropped (the thread is
\* detached) and so is the sender.
drop_driver ==
  /\ fgpc = "idle"
  /\ UNCHANGED <<prev_status, exit_send>>
  /\ fgpc' = "dropped"
  /\ thread_handle' = None
  /\ ctrl_sender' = None
  /\ UNCHANGED <<layout, status, fgop, wasm_bin, loc_handle, loc_sender,
                 lastRet, spawned, worker>>

\* ------------------------------------------------------------ worker thread
\* A thread that returns or unwinds drops its receiver and its locals (the
\* program with its pixels, playing, the render deadline).
finish(w, res) ==
  [worker[w] EXCEPT !.pc = "done", !.rx = FALSE, !.result = res,
                    !.pixels = <<>>, !.playing = FALSE, !.k = 0]

\* run_driver: led_write_factory(layout)?
\* A call of led_write_factory counted on a worker's record.
factory_called(r) == [r EXCEPT !.factory_calls = r.factory_calls + 1]

\* Variant of worker_factory that calls the factory a second time when the
\* first call returned Err.
worker_factory_retry(w) ==
  /\ worker[w].pc = "factory"
  /\ \E o \in Outcomes :
       worker' = [worker EXCEPT ![w] =
         CASE o = "Ok"  -> factory_called([worker[w] EXCEPT !.sink = TRUE, !.pc = "load"])
           [] o = "Err" -> factory_called(factory_called(finish(w, "ErrSink")))
           [] OTHER     -> factory_called(finish(w, "Panic"))]
  /\ UNCHANGED <<layout, fgvars>>

worker_factory(w) ==
  /\ worker[w].pc = "factory"
  /\ \E o \in Outcomes :
       worker' = [worker EXCEPT ![w] =
         CASE o = "Ok"  -> factory_called([worker[w] EXCEPT !.sink = TRUE, !.pc = "load"])
           [] o = "Err" -> factory_called(finish(w, "ErrSink"))
           [] OTHER     -> factory_called(finish(w, "Panic"))]
  /\ UNCHANGED <<layout, fgvars>>

\* Outcomes of create_runtime()? followed by WasmProgram::new(..)?; empty
\* bytes never parse.
load_results(bin) ==
  IF bin = "empty" THEN {"ErrRuntime", "ErrWasm"}
  ELSE {"Ok", "ErrRuntime", "ErrWasm", "Panic"}

\* Variant of the load step that runs clear_leds before leaving on an error.
load_failure_clearing(w, r) ==
  [worker[w] EXCEPT !.loopResult = r, !.rx = FALSE, !.pc = "clear"]

\* run_driver on a failed create_runtime / WasmProgram::new: `?` returns.
load_failure(w, r) == finish(w, r)

worker_load(w) ==
  /\ worker[w].pc = "load"
  /\ \E r \in load_results(worker[w].bin) :
       \/ /\ r = "Ok"
          /\ \E c \in Colours :
               worker' = [worker EXCEPT ![w] =
                 [worker[w] EXCEPT !.prog = TRUE,
                                   !.pixels = make_pixels_array(layout, c),
                                   !.playing = FALSE,
                                   !.pc = "recv"]]
       \/ /\ r # "Ok"
          /\ worker' = [worker EXCEPT ![w] = load_failure(w, r)]
  /\ UNCHANGED <<layout, fgvars>>

\* recv_timeout returns Disconnected: every Sender is gone.
worker_disconnected(w) ==
  /\ worker[w].pc = "recv"
  /\ ~sender_alive(w)
  /\ worker' = [worker EXCEPT ![w] =
       [worker[w] EXCEPT !.loopResult = "Ok", !.rx = FALSE, !.pc = "clear"]]
  /\ UNCHANGED <<layout, fgvars>>

\* Variant of the Timeout arm that only moves the deadline.
on_timeout_idle(w, o, c) == [worker[w] EXCEPT !.k = @ + 1]

\* What the Timeout arm does before the sink write.
on_timeout(w, o, c) ==
  IF ~worker[w].playing
    THEN [worker[w] EXCEPT !.k = @ + 1]
    ELSE CASE o = "Ok"  -> [worker[w] EXCEPT !.ticks = @ + 1,
                                              !.pixels = make_pixels_array(layout, c),
                                              !.pc = "write"]
           [] o = "Err" -> [worker[w] EXCEPT !.loopResult = "ErrTick",
                                              !.rx = FALSE, !.pc = "clear"]
           [] OTHER     -> finish(w, "Panic")

\* recv_timeout returns Timeout: tick if playing, else only the deadline moves.
worker_timeout(w) ==
  /\ worker[w].pc = "recv"
  /\ worker[w].k < MaxTimeouts
  /\ \E o \in Outcomes, c \in Colours :
       worker' = [worker EXCEPT ![w] = on_timeout(w, o, c)]
  /\ UNCHANGED <<layout, fgvars>>

\* The state of the worker after led_write.write(leds_iter(&program)).
after_write(w, o, log) ==
  CASE o = "Ok"  -> [worker[w] EXCEPT !.writes = log, !.k = @ + 1, !.pc = "recv"]
    [] o = "Err" -> [worker[w] EXCEPT !.writes = log, !.loopResult = "ErrWrite",
                                       !.rx = FALSE, !.pc = "clear"]
    [] OTHER     -> [finish(w, "Panic") EXCEPT !.writes = log]

worker_write(w) ==
  /\ worker[w].pc = "write"
  /\ \E o \in Outcomes :
       worker' = [worker EXCEPT ![w] =
         after_write(w, o,
           Append(worker[w].writes,
                  [kind |-> "render", frame |-> leds_iter(worker[w].pixels),
                   res |-> o]))]
  /\ UNCHANGED <<layout, fgvars>>

\* Variant of clear_leds that writes the program's last frame once more.
clear_frame_last(w) == leds_iter(worker[w].pixels)

\* The frame clear_leds writes.
clear_frame(w) == leds_iter(TrivialProgram(layout, PixelZero))

\* Variant of run_driver's ending that returns the clear's error.
exit_result_from_clear(w, o) ==
  CASE o = "Ok"  -> worker[w].loopResult
    [] o = "Err" -> "ErrClear"
    [] OTHER     -> "Panic"

\* run_driver's result: driver_loop's result; the clear's error is logged.
exit_result(w, o) == IF o = "Panic" THEN "Panic" ELSE worker[w].loopResult

\* run_driver after driver_loop: clear_leds, then return result.
worker_clear(w) ==
  /\ worker[w].pc = "clear"
  /\ \E o \in Outcomes :
       worker' = [worker EXCEPT ![w] =
         [finish(w, exit_result(w, o)) EXCEPT !.writes =
            Append(worker[w].writes,
                   [kind |-> "clear", frame |-> clear_frame(w), res |-> o])]]
  /\ UNCHANGED <<layout, fgvars>>

\* ----------------------------------------------------------- specification
Next ==
  \/ (\E bin \in WasmBins : start(bin)) /\ UNCHANGED <<ctlvars, libvars>>
  \/ stop /\ UNCHANGED <<ctlvars, libvars>>
  \/ stop_send_ok /\ UNCHANGED <<ctlvars, libvars>>
  \/ stop_send_err /\ UNCHANGED <<ctlvars, libvars>>
  \/ stop_join /\ UNCHANGED <<ctlvars, libvars>>
  \/ start_send_ok /\ UNCHANGED <<ctlvars, libvars>>
  \/ start_send_err /\ UNCHANGED <<ctlvars, libvars>>
  \/ start_join /\ UNCHANGED <<ctlvars, libvars>>
  \/ play /\ UNCHANGED <<ctlvars, libvars>>
  \/ pause /\ UNCHANGED <<ctlvars, libvars>>
  \/ send_ok /\ UNCHANGED <<ctlvars, libvars>>
  \/ send_err /\ UNCHANGED <<ctlvars, libvars>>
  \/ drop_driver /\ UNCHANGED <<ctlvars, libvars>>
  \/ (\E w \in Workers : worker_factory(w)) /\ UNCHANGED <<ctlvars, libvars>>
  \/ (\E w \in Workers : worker_load(w)) /\ UNCHANGED <<ctlvars, libvars>>
  \/ (\E w \in Workers : worker_disconnected(w)) /\ UNCHANGED <<ctlvars, libvars>>
  \/ (\E w \in Workers : worker_timeout(w)) /\ UNCHANGED <<ctlvars, libvars>>
  \/ (\E w \in Workers : worker_write(w)) /\ UNCHANGED <<ctlvars, libvars>>
  \/ (\E w \in Workers : worker_clear(w)) /\ UNCHANGED <<ctlvars, libvars>>

Spec == Init /\ [][Next]_vars

\* The worker is an operating-system thread: while it waits in recv_timeout
\* with no control action arriving the deadline passes and the Timeout arm
\* runs, and a sink write that was called returns.  Nothing obliges the
\* foreground to call the Driver.  Whether a deadline passes does not depend
\* on the layout: the layout of one strip of one pixel is explored.
FairInit == Init /\ layout = LayoutOf(<<1>>)

FairSpec ==
  /\ FairInit
  /\ [][Next]_vars
  /\ \A w \in Workers :
       /\ WF_vars(worker_timeout(w) /\ UNCHANGED <<ctlvars, libvars>>)
       /\ WF_vars(worker_write(w) /\ UNCHANGED <<ctlvars, libvars>>)

\* Every call the worker makes returns: the sink factory, create_runtime and
\* WasmProgram::new, tick (one step with the Timeout arm), the sink write and
\* clear_leds.  The foreground is a running thread: a send that can fail
\* fails, a join of a finished thread returns, and a sender blocked in the
\* rendezvous is served by a recv_timeout the worker enters, however often
\* the worker leaves its receive in between.
TermSpec ==
  /\ FairInit
  /\ [][Next]_vars
  /\ \A w \in Workers :
       /\ WF_vars(worker_factory(w) /\ UNCHANGED <<ctlvars, libvars>>)
       /\ WF_vars(worker_load(w) /\ UNCHANGED <<ctlvars, libvars>>)
       /\ WF_vars(worker_write(w) /\ UNCHANGED <<ctlvars, libvars>>)
       /\ WF_vars(worker_clear(w) /\ UNCHANGED <<ctlvars, libvars>>)
  /\ SF_vars(start_send_ok /\ UNCHANGED <<ctlvars, libvars>>)
  /\ SF_vars(stop_send_ok /\ UNCHANGED <<ctlvars, libvars>>)
  /\ SF_vars(send_ok /\ UNCHANGED <<ctlvars, libvars>>)
  /\ WF_vars(start_send_err /\ UNCHANGED <<ctlvars, libvars>>)
  /\ WF_vars(stop_send_err /\ UNCHANGED <<ctlvars, libvars>>)
  /\ WF_vars(send_err /\ UNCHANGED <<ctlvars, libvars>>)
  /\ WF_vars(start_join /\ UNCHANGED <<ctlvars, libvars>>)
  /\ WF_vars(stop_join /\ UNCHANGED <<ctlvars, libvars>>)

\* ------------------------------------------------------------ JSON-RPC codec
retry_time == 5                         \* Duration::from_secs(5)
DriverName == "Local test"              \* Controller.driver_name
Absent == "(absent)"                    \* Option::None of a response field

\* to_raw_value of a string: the JSON text of the string.
JsonStr(str) == "\"" \o str \o "\""

Methods == {"reverse_auth", "get_status", "run", "play", "pause", "stop"}
MethodTexts == Methods \cup {"reboot"}  \* what a peer may put in "method"
Versions == {"2.0", "1.0"}              \* what a peer may put in "jsonrpc"
RawIds == {"1.0", "\"a\""}              \* raw JSON text of an "id"
WasmTexts == {"bW9k", "!"}              \* what a peer may put in params.wasm
Payloads == {"", "p"}                   \* payload bytes of a control frame

\* Raw JSON text of "params".
RunParamsText(wasm) == "{\"wasm\":" \o JsonStr(wasm) \o "}"
Challenges == {"c", "d"}                \* what a peer may put in params.challenge
AuthParamsText(challenge) == "{\"challenge\":" \o JsonStr(challenge) \o "}"
ParamTexts ==
  {"[]"} \cup {AuthParamsText(challenge) : challenge \in Challenges}
         \cup {RunParamsText(wasm) : wasm \in WasmTexts}

\* serde_json::from_str::<jsonrpc::Request>: the payload of a Text frame is a
\* JSON object, modelled as its members; every field is required.
from_str(text) ==
  IF {"jsonrpc", "id", "method", "params"} \subseteq DOMAIN text
    THEN [ok |-> TRUE,
          val |-> [jsonrpc |-> text.jsonrpc, id |-> text.id,
                   method |-> text.method, params |-> text.params]]
    ELSE [ok |-> FALSE, err |-> "RequestDeserialization"]

\* jsonrpc::Request::validate
validate(req) == req.jsonrpc = "2.0"

\* parse_params::<[Value; 0]>, ::<ReverseAuthParams>, ::<RunParams>
parse_no_params_lenient(raw) == TRUE      \* variant: params are not looked at
parse_no_params(raw) == raw = "[]"
parse_auth_params(raw) == \E challenge \in Challenges : raw = AuthParamsText(challenge)
parse_run_params(raw) == \E wasm \in WasmTexts : raw = RunParamsText(wasm)
wasm_of(raw) == CHOOSE wasm \in WasmTexts : raw = RunParamsText(wasm)

Rejected(err) == [ok |-> FALSE, err |-> err]
Accepted(kind, wasm) == [ok |-> TRUE, kind |-> kind, wasm |-> wasm]

\* Request::from_jsonrpc after validate: the method table.
request_of(req) ==
  IF req.method = "reverse_auth" THEN
    IF parse_auth_params(req.params) THEN Accepted("ReverseAuth", "")
    ELSE Rejected("RequestDeserialization")
  ELSE IF req.method = "run" THEN
    IF parse_run_params(req.params) THEN Accepted("Run", wasm_of(req.params))
    ELSE Rejected("RequestDeserialization")
  ELSE IF req.method \in {"get_status", "play", "pause", "stop"} THEN
    IF parse_no_params(req.params)
      THEN Accepted(CASE req.method = "get_status" -> "GetStatus"
                      [] req.method = "play" -> "Play"
                      [] req.method = "pause" -> "Pause"
                      [] req.method = "stop" -> "Stop", "")
    ELSE Rejected("RequestDeserialization")
  ELSE Rejected("UnknownRpcMethod")

\* Request::from_jsonrpc
from_jsonrpc(req) ==
  IF ~validate(req) THEN Rejected("BadJsonrpcRequest")
  ELSE request_of(req)

\* Requests a peer sends: every request that Request::from_jsonrpc accepts,
\* under every id; under one id, every method, known or not, with every
\* params its shape does not admit; and one request of another version.
RequestTexts ==
  UNION {IF from_jsonrpc(t).ok \/ t.id = "1.0" THEN {t} ELSE {} :
           t \in [jsonrpc : {"2.0"}, id : RawIds, method : MethodTexts,
                  params : ParamTexts]}
    \cup [jsonrpc : Versions \ {"2.0"}, id : {"1.0"}, method : {"get_status"},
          params : {"[]"}]

\* JSON objects that lack members of jsonrpc::Request.
BadTexts == {[jsonrpc |-> "2.0", method |-> "stop"]}

\* Variant of the decoding that skips what is not base64 text: the bytes
\* that remain are decoded, here none.
base64_decode_lossy(wasm) ==
  CASE wasm = ""     -> [ok |-> TRUE, bin |-> "empty"]
    [] wasm = "bW9k" -> [ok |-> TRUE, bin |-> "module"]
    [] OTHER         -> [ok |-> TRUE, bin |-> "empty"]

\* base64::decode of params.wasm
base64_decode(wasm) ==
  CASE wasm = ""     -> [ok |-> TRUE, bin |-> "empty"]
    [] wasm = "bW9k" -> [ok |-> TRUE, bin |-> "module"]
    [] OTHER         -> [ok |-> FALSE, err |-> "BadWasmEncoding"]

\* Display of an Error: the text of the wrapped error.
to_string(err) ==
  CASE err = "ErrSink"         -> "cannot open LED output"
    [] err = "ErrRuntime"      -> "wasm3: cannot allocate runtime"
    [] err = "ErrWasm"         -> "wasm3: cannot load module"
    [] err = "BadWasmEncoding" -> "Invalid byte 33, offset 0."
    [] OTHER                   -> err

\* Variant of response_for that answers every error with the id null.
response_null_id_on_error(req, raw, is_error) ==
  [jsonrpc |-> "2.0", id |-> IF is_error THEN "null" ELSE req.id,
   result |-> IF is_error THEN Absent ELSE raw,
   error |-> IF is_error THEN raw ELSE Absent]

\* handle_request, lines 177-190: the jsonrpc::Response for (result, is_error).
response_for(req, raw, is_error) ==
  [jsonrpc |-> "2.0", id |-> req.id,
   result |-> IF is_error THEN Absent ELSE raw,
   error |-> IF is_error THEN raw ELSE Absent]

\* jsonrpc::Response::validate
\* Variant of response_validate without the both-present check.
response_validate_allow_both(resp) ==
  /\ resp.jsonrpc = "2.0"
  /\ ~(resp.result = Absent /\ resp.error = Absent)

response_validate(resp) ==
  /\ resp.jsonrpc = "2.0"
  /\ ~(resp.result # Absent /\ resp.error # Absent)
  /\ ~(resp.result = Absent /\ resp.error = Absent)

\* serde_json::to_string(&response): absent fields are skipped.
response_to_string(resp) ==
  [key \in {"jsonrpc", "id"}
            \cup (IF resp.result # Absent THEN {"result"} ELSE {})
            \cup (IF resp.error # Absent THEN {"error"} ELSE {}) |->
     CASE key = "jsonrpc" -> JsonStr(resp.jsonrpc)
       [] key = "id"      -> resp.id
       [] key = "result"  -> resp.result
       [] key = "error"   -> resp.error]

\* Variant of run_outcome that reports a failed run in the result field.
run_outcome_as_result(ret) ==
  IF ret.kind = "Ok" THEN <<JsonStr(ret.val), FALSE>>
  ELSE <<JsonStr(to_string(ret.val)), FALSE>>

\* handle_request's Run arm: (result, is_error) for what handle_run returned.
run_outcome(ret) ==
  IF ret.kind = "Ok" THEN <<JsonStr(ret.val), FALSE>>
  ELSE <<JsonStr(to_string(ret.val)), TRUE>>

\* --------------------------------------------------------- control client
drvvars == <<layout, fgvars, worker>>

\* recv_message returned the frame.
Recv(frame) ==
  /\ cpc = "recv"
  /\ msgs < MaxMsgs
  /\ msgs' = msgs + 1
  /\ frame_in' = frame
  /\ text_in' = IF frame.kind = "Text" THEN text_in + 1 ELSE text_in

\* connect_and_process_until_error returns Err(err): the reconnect loop logs
\* it and sleeps.
Fail(err) ==
  /\ cpc' = "sleep"
  /\ last_err' = err
  /\ slept' = retry_time

\* process_one returns an error without having sent anything.
Abort(err) ==
  /\ Fail(err)
  /\ frame_out' = <<>>
  /\ UNCHANGED <<attempts, text_out, drvvars>>

\* send_message(frame): the session goes on if the transport took the frame.
Send(kind, body) ==
  /\ text_out' = IF kind = "Text" THEN text_out + 1 ELSE text_out
  /\ \E res \in {"Ok", "Err"} :
       /\ frame_out' = <<[kind |-> kind, body |-> body, res |-> res]>>
       /\ IF res = "Ok"
            THEN cpc' = "recv" /\ UNCHANGED <<last_err, slept>>
            ELSE Fail("WebSocketError")

\* Variant of Respond that follows the response with a second Text frame.
Respond_twice(req, raw, is_error) ==
  LET body == response_to_string(response_for(req, raw, is_error))
  IN /\ text_out' = text_out + 2
     /\ frame_out' = <<[kind |-> "Text", body |-> body, res |-> "Ok"],
                       [kind |-> "Text", body |-> body, res |-> "Ok"]>>
     /\ cpc' = "recv"
     /\ UNCHANGED <<last_err, slept>>

\* process_one's tail for a response: validate, serialize, send.
Respond(req, raw, is_error) ==
  LET resp == response_for(req, raw, is_error)
  IN IF response_validate(resp)
       THEN Send("Text", response_to_string(resp))
       ELSE /\ Fail("BadJsonrpcResponse")
            /\ frame_out' = <<>>
            /\ UNCHANGED text_out

\* Variant of ctl_connect with the connect outside the retry loop: a failed
\* connect ends the client.
ctl_connect_fail_fast ==
  /\ cpc \in {"connect", "sleep"}
  /\ attempts < MaxAttempts
  /\ attempts' = attempts + 1
  /\ \/ /\ cpc' = "recv"
        /\ frame_in' = NoFrame
        /\ frame_out' = <<>>
        /\ text_in' = 0
        /\ text_out' = 0
        /\ handler' = "none"
        /\ called' = "none"
        /\ last_err' = "none"
        /\ UNCHANGED slept
     \/ /\ cpc' = "exited"
        /\ last_err' = "WebSocketError"
        /\ UNCHANGED <<frame_in, frame_out, text_in, text_out, handler, called, slept>>
  /\ UNCHANGED <<msgs, drvvars>>

\* Variant of ctl_connect in which every connection gets a Controller with
\* a Driver of its own: the previous Driver is dropped.
ctl_connect_new_driver ==
  /\ cpc \in {"connect", "sleep"}
  /\ attempts < MaxAttempts
  /\ attempts' = attempts + 1
  /\ \/ /\ cpc' = "recv"
        /\ frame_in' = NoFrame
        /\ frame_out' = <<>>
        /\ text_in' = 0
        /\ text_out' = 0
        /\ handler' = "none"
        /\ called' = "none"
        /\ last_err' = "none"
        /\ UNCHANGED slept
     \/ /\ Fail("WebSocketError")
        /\ UNCHANGED <<frame_in, frame_out, text_in, text_out, handler, called>>
  /\ status' = "NotPlaying"
  /\ thread_handle' = None
  /\ ctrl_sender' = None
  /\ UNCHANGED <<msgs, layout, fgpc, fgop, wasm_bin, loc_handle, loc_sender,
                 prev_status, exit_send, lastRet, spawned, worker>>

\* The reconnect loop enters connect_and_process_until_error, for the first
\* time or when thread::sleep(retry_time) has returned: connect(url)?.  A new
\* session has received and sent nothing.
ctl_connect ==
  /\ cpc \in {"connect", "sleep"}
  /\ attempts < MaxAttempts
  /\ attempts' = attempts + 1
  /\ \/ /\ cpc' = "recv"
        /\ frame_in' = NoFrame
        /\ frame_out' = <<>>
        /\ text_in' = 0
        /\ text_out' = 0
        /\ handler' = "none"
        /\ called' = "none"
        /\ last_err' = "none"
        /\ UNCHANGED slept
     \/ /\ Fail("WebSocketError")
        /\ UNCHANGED <<frame_in, frame_out, text_in, text_out, handler, called>>
  /\ UNCHANGED <<msgs, drvvars>>

\* recv_message()? fails.
ctl_recv_err ==
  /\ cpc = "recv"
  /\ frame_in' = [kind |-> "error"]
  /\ handler' = "none"
  /\ called' = "none"
  /\ Abort("WebSocketError")
  /\ UNCHANGED <<msgs, text_in>>

\* A Text frame that is not a jsonrpc::Request.
ctl_text_undecodable ==
  /\ cpc = "recv"
  /\ \E text \in BadTexts :
    /\ Recv([kind |-> "Text", text |-> text])
    /\ ~from_str(text).ok
    /\ handler' = "none"
    /\ called' = "none"
    /\ Abort(from_str(text).err)

\* A Text frame whose request Request::from_jsonrpc refuses: handle_request
\* returns the error with `?` and so does process_one.
ctl_text_rejected ==
  /\ cpc = "recv"
  /\ \E text \in RequestTexts :
    /\ Recv([kind |-> "Text", text |-> text])
    /\ from_str(text).ok
    /\ ~from_jsonrpc(from_str(text).val).ok
    /\ handler' = "none"
    /\ called' = "none"
    /\ Abort(from_jsonrpc(from_str(text).val).err)

\* reverse_auth, get_status, and a run whose base64 does not decode: the
\* handler returns without blocking and the response is sent.
ctl_text_local ==
  /\ cpc = "recv"
  /\ \E text \in RequestTexts :
    LET req == from_str(text).val
        rpc == from_jsonrpc(req)
    IN /\ Recv([kind |-> "Text", text |-> text])
       /\ from_str(text).ok
       /\ rpc.ok
       /\ \/ /\ rpc.kind = "ReverseAuth"
             /\ handler' = "handle_reverse_auth"
             /\ called' = "none"
             /\ Respond(req, "{\"name\":" \o JsonStr(DriverName) \o "}", FALSE)
          \/ /\ rpc.kind = "GetStatus"
             /\ handler' = "handle_get_status"
             /\ called' = "status"
             /\ Respond(req, JsonStr(status), FALSE)
          \/ /\ rpc.kind = "Run"
             /\ ~base64_decode(rpc.wasm).ok
             /\ handler' = "handle_run"
             /\ called' = "none"
             /\ LET out == run_outcome([kind |-> "Err",
                                        val |-> base64_decode(rpc.wasm).err])
                IN Respond(req, out[1], out[2])
       /\ UNCHANGED <<attempts, drvvars>>

\* The Controller handler has called into the Driver.
Calling(h, op) ==
  /\ handler' = h
  /\ called' = op
  /\ cpc' = "driver"
  /\ frame_out' = <<>>
  /\ UNCHANGED <<attempts, text_out, last_err, slept>>

\* run with decodable wasm: handle_run calls driver.start(wasm_bin).
ctl_text_run ==
  /\ cpc = "recv"
  /\ \E text \in RequestTexts :
    LET rpc == from_jsonrpc(from_str(text).val)
    IN /\ Recv([kind |-> "Text", text |-> text])
       /\ from_str(text).ok
       /\ rpc.ok
       /\ rpc.kind = "Run"
       /\ base64_decode(rpc.wasm).ok
       /\ Calling("handle_run", "start")
       /\ start(base64_decode(rpc.wasm).bin)

\* play, pause, stop: the handler calls the Driver operation of that name.
ctl_text_play ==
  /\ cpc = "recv"
  /\ \E text \in RequestTexts :
    LET rpc == from_jsonrpc(from_str(text).val)
    IN /\ Recv([kind |-> "Text", text |-> text])
       /\ from_str(text).ok
       /\ rpc.ok
       /\ rpc.kind = "Play"
       /\ Calling("handle_play", "play")
       /\ play

\* Variant of ctl_text_pause whose handler calls driver.stop().
ctl_text_pause_stops ==
  /\ cpc = "recv"
  /\ \E text \in RequestTexts :
    LET rpc == from_jsonrpc(from_str(text).val)
    IN /\ Recv([kind |-> "Text", text |-> text])
       /\ from_str(text).ok
       /\ rpc.ok
       /\ rpc.kind = "Pause"
       /\ Calling("handle_pause", "stop")
       /\ stop

ctl_text_pause ==
  /\ cpc = "recv"
  /\ \E text \in RequestTexts :
    LET rpc == from_jsonrpc(from_str(text).val)
    IN /\ Recv([kind |-> "Text", text |-> text])
       /\ from_str(text).ok
       /\ rpc.ok
       /\ rpc.kind = "Pause"
       /\ Calling("handle_pause", "pause")
       /\ pause

ctl_text_stop ==
  /\ cpc = "recv"
  /\ \E text \in RequestTexts :
    LET rpc == from_jsonrpc(from_str(text).val)
    IN /\ Recv([kind |-> "Text", text |-> text])
       /\ from_str(text).ok
       /\ rpc.ok
       /\ rpc.kind = "Stop"
       /\ Calling("handle_stop", "stop")
       /\ stop

\* The Driver operation has returned: handle_request builds the response and
\* process_one sends it.
ctl_respond ==
  /\ cpc = "driver"
  /\ fgpc = "idle"
  /\ LET req == from_str(frame_in.text).val
         out == IF called = "start" THEN run_outcome(lastRet)
                ELSE <<JsonStr(lastRet.val), FALSE>>
     IN Respond(req, out[1], out[2])
  /\ UNCHANGED <<attempts, msgs, frame_in, text_in, handler, called, drvvars>>

\* Variant of ctl_ping that answers with an empty Pong.
ctl_ping_empty_pong ==
  \E data \in Payloads :
    /\ Recv([kind |-> "Ping", data |-> data])
    /\ handler' = "none"
    /\ called' = "none"
    /\ Send("Pong", "")
    /\ UNCHANGED <<attempts, drvvars>>

\* A Ping frame is answered with a Pong of the same payload.
ctl_ping ==
  \E data \in Payloads :
    /\ Recv([kind |-> "Ping", data |-> data])
    /\ handler' = "none"
    /\ called' = "none"
    /\ Send("Pong", data)
    /\ UNCHANGED <<attempts, drvvars>>

\* The frames of the `_` arm.
OtherFrames ==
  {[kind |-> kind, data |-> data] : kind \in {"Binary", "Pong"}, data \in Payloads}
    \cup {[kind |-> "Close", data |-> ""]}

\* Variant of ctl_unexpected that answers a Close with a Close and goes on.
ctl_unexpected_close_echo ==
  \E frame \in OtherFrames :
    /\ Recv(frame)
    /\ handler' = "none"
    /\ called' = "none"
    /\ IF frame.kind = "Close"
         THEN Send("Close", "") /\ UNCHANGED <<attempts, drvvars>>
         ELSE Abort("UnexpectedMessage")

\* Binary, Close, Pong: Err(Error::UnexpectedMessage(message)).
ctl_unexpected ==
  \E frame \in OtherFrames :
    /\ Recv(frame)
    /\ handler' = "none"
    /\ called' = "none"
    /\ Abort("UnexpectedMessage")

\* main.rs: the control client is the only caller of the Driver, and the
\* Driver lives as long as the reconnect loop, so a worker's Sender is never
\* dropped while the worker waits in recv_timeout: the Disconnected arm has no
\* step here.
CtrlNext ==
  \/ ctl_connect /\ UNCHANGED libvars
  \/ ctl_recv_err /\ UNCHANGED libvars
  \/ ctl_text_undecodable /\ UNCHANGED libvars
  \/ ctl_text_rejected /\ UNCHANGED libvars
  \/ ctl_text_local /\ UNCHANGED libvars
  \/ ctl_text_run /\ UNCHANGED libvars
  \/ ctl_text_play /\ UNCHANGED libvars
  \/ ctl_text_pause /\ UNCHANGED libvars
  \/ ctl_text_stop /\ UNCHANGED libvars
  \/ ctl_respond /\ UNCHANGED libvars
  \/ ctl_ping /\ UNCHANGED libvars
  \/ ctl_unexpected /\ UNCHANGED libvars
  \/ stop_send_ok /\ UNCHANGED <<ctlvars, libvars>>
  \/ stop_send_err /\ UNCHANGED <<ctlvars, libvars>>
  \/ stop_join /\ UNCHANGED <<ctlvars, libvars>>
  \/ start_send_ok /\ UNCHANGED <<ctlvars, libvars>>
  \/ start_send_err /\ UNCHANGED <<ctlvars, libvars>>
  \/ start_join /\ UNCHANGED <<ctlvars, libvars>>
  \/ send_ok /\ UNCHANGED <<ctlvars, libvars>>
  \/ send_err /\ UNCHANGED <<ctlvars, libvars>>
  \/ (\E w \in Workers : worker_factory(w)) /\ UNCHANGED <<ctlvars, libvars>>
  \/ (\E w \in Workers : worker_load(w)) /\ UNCHANGED <<ctlvars, libvars>>
  \/ (\E w \in Workers : worker_timeout(w)) /\ UNCHANGED <<ctlvars, libvars>>
  \/ (\E w \in Workers : worker_write(w)) /\ UNCHANGED <<ctlvars, libvars>>
  \/ (\E w \in Workers : worker_clear(w)) /\ UNCHANGED <<ctlvars, libvars>>

\* The layout of the configuration the program was started with.
CtrlLayout == LayoutOf(<<1>>)

CtrlInit == Init /\ layout = CtrlLayout

CtrlSpec == CtrlInit /\ [][CtrlNext]_vars

\* thread::sleep returns when retry_time has passed and the loop then calls
\* connect_and_process_until_error; nothing obliges the peer to send frames.
CtrlFairSpec == CtrlSpec /\ WF_vars(ctl_connect /\ UNCHANGED libvars)

\* ------------------------------------------------ jsonrpc.rs on its own
\* Version strings a message may carry.
AnyVersions == Versions \cup {"2", "2.00", ""}

\* The values a "result" or "error" key may carry; null is a value.
RawValues == {"null", "\"Playing\""}

\* JSON texts of requests and responses, as records of their keys; "result"
\* and "error" may each be missing.
ValidateRequests == [jsonrpc : AnyVersions, id : RawIds, method : {"get_status"},
                     params : {"[]"}]

ValidateResponses ==
  [jsonrpc : AnyVersions, id : RawIds]
    \cup [jsonrpc : AnyVersions, id : RawIds, result : RawValues]
    \cup [jsonrpc : AnyVersions, id : RawIds, error : RawValues]
    \cup [jsonrpc : AnyVersions, id : RawIds, result : RawValues, error : RawValues]

\* serde_json::from_str::<Response>: a missing "result" or "error" is None
\* (serde default), a present one is Some of its raw text, null included.
response_from_str(text) ==
  [jsonrpc |-> text.jsonrpc, id |-> text.id,
   result |-> IF "result" \in DOMAIN text THEN text.result ELSE Absent,
   error |-> IF "error" \in DOMAIN text THEN text.error ELSE Absent]

ValidateInit ==
  /\ DriverInit
  /\ layout = CtrlLayout
  /\ WasmIdle
  /\ LoopIdle
  /\ verdict = "none"
  /\ subject \in [side : {"request"}, text : ValidateRequests]
                  \cup [side : {"response"}, text : ValidateResponses]

\* Request::validate on a deserialized request.
request_validate_call ==
  /\ subject.side = "request"
  /\ verdict = "none"
  /\ verdict' = IF validate(from_str(subject.text).val) THEN "Ok" ELSE "Err"
  /\ UNCHANGED <<subject, layout, fgvars, worker, ctlvars, wasmvars, loopvars>>

\* Response::validate on a deserialized response.
response_validate_call ==
  /\ subject.side = "response"
  /\ verdict = "none"
  /\ verdict' = IF response_validate(response_from_str(subject.text))
                  THEN "Ok" ELSE "Err"
  /\ UNCHANGED <<subject, layout, fgvars, worker, ctlvars, wasmvars, loopvars>>

ValidateNext ==
  \/ request_validate_call
  \/ response_validate_call

ValidateSpec == ValidateInit /\ [][ValidateNext]_vars

\* ------------------------------------------- wasm_program.rs on its own
MaxTicks == 2        \* calls of WasmProgram::tick explored

\* Host functions a guest may declare as imports.
HostImports == {"env.abort", "env.seed", "colorConvert.hsvToRgbEncoded"}

\* The exports WasmProgram::new looks up, in the order of its find_function
\* calls.
FindOrder ==
  <<"initLayoutSetNumStrips", "initLayoutSetStripLen", "initLayoutSetPixelLoc",
    "initLayoutDone", "tick", "getPixelRed", "getPixelGrn", "getPixelBlu">>

FoundExports == {FindOrder[n] : n \in 1..Len(FindOrder)}

\* Guests also come with one packed getter in place of, or next to, the three
\* channel getters.
PackedExports ==
  (FoundExports \ {"getPixelRed", "getPixelGrn", "getPixelBlu"}) \cup {"getPixelVal"}

GuestExportSets ==
  {FoundExports \ {name} : name \in FoundExports}
    \cup {FoundExports, PackedExports, FoundExports \cup PackedExports}

\* Guest modules: whether the bytes parse, what they import and export, and
\* whether a declared hsvToRgbEncoded import has the host function's signature.
Guests ==
  {g \in [valid : BOOLEAN, imports : SUBSET HostImports, exports : GuestExportSets,
          sig_ok : BOOLEAN] :
     /\ ~g.sig_ok => "colorConvert.hsvToRgbEncoded" \in g.imports
     /\ ~g.valid => g.imports = {} /\ g.exports = FoundExports /\ g.sig_ok}

\* What a guest's pixel getters return, as u32: a guest paints all black, all
\* red, or values above 255 that depend on the pixel asked for (i, j from 0);
\* 0x7FFFFFFF stands for the large values.
Painters == {"black", "red", "wide"}

GuestPixel(painter, i, j) ==
  CASE painter = "black" -> <<0, 0, 0>>
    [] painter = "red"   -> <<255, 0, 0>>
    [] painter = "wide"  -> <<256 + i, 65536 + j, 2147483647>>

\* `v as u8` of a u32.
as_u8(v) == v % 256

Call(fn, args) == [fn |-> fn, args |-> args]

\* The guest calls of lines 84-91 for a layout.
StripInitCalls(lay, i) ==
  <<Call("initLayoutSetStripLen", <<i - 1, Len(lay[i])>>)>>
    \o [j \in 1..Len(lay[i]) |->
          Call("initLayoutSetPixelLoc", <<i - 1, j - 1, lay[i][j][1], lay[i][j][2]>>)]

InitCalls(lay) ==
  <<Call("initLayoutSetNumStrips", <<Len(lay)>>)>>
    \o Flatten([i \in 1..Len(lay) |-> StripInitCalls(lay, i)])
    \o <<Call("initLayoutDone", <<>>)>>

\* The guest calls of update_pixel_vals over a frame.
PixelReadCalls(i, j) ==
  <<Call("getPixelRed", <<i - 1, j - 1>>), Call("getPixelGrn", <<i - 1, j - 1>>),
    Call("getPixelBlu", <<i - 1, j - 1>>)>>

ReadCalls(pix) ==
  Flatten([i \in 1..Len(pix) |->
             Flatten([j \in 1..Len(pix[i]) |-> PixelReadCalls(i, j)])])

\* Pixels of the strips before strip i.
RECURSIVE PixelsBefore(_, _)
PixelsBefore(pix, i) ==
  IF i <= 1 THEN 0 ELSE PixelsBefore(pix, i - 1) + Len(pix[i - 1])

\* update_pixel_vals when the first n getter calls return and the guest
\* paints with painter: a pixel is overwritten once its three getters returned.
update_pixel_vals(pix, painter, n) ==
  [i \in 1..Len(pix) |->
     [j \in 1..Len(pix[i]) |->
        IF 3 * (PixelsBefore(pix, i) + j) <= n
          THEN LET v == GuestPixel(painter, i - 1, j - 1)
               IN <<as_u8(v[1]), as_u8(v[2]), as_u8(v[3])>>
          ELSE pix[i][j]]]

\* Variant of default_pixels that gives every strip as many pixels as the
\* layout has strips.
default_pixels_square(lay) == [i \in 1..Len(lay) |-> [j \in 1..Len(lay) |-> PixelZero]]

\* make_pixels_array as WasmProgram::new calls it: PixelVal::default() is black.
default_pixels(lay) == make_pixels_array(lay, PixelZero)

\* A sequence of guest calls of which the first `done` return; call done + 1,
\* if there is one, traps.
Attempted(cs, done) == SubSeq(cs, 1, IF done < Len(cs) THEN done + 1 ELSE Len(cs))

Sandbox(op, msg) == [op |-> op, kind |-> "Err", err |-> msg]
Returned(op) == [op |-> op, kind |-> "Ok", err |-> "none"]

\* The first export of FindOrder the guest lacks, or 0.
FirstMissing(g) ==
  IF \A n \in 1..Len(FindOrder) : FindOrder[n] \in g.exports
    THEN 0
    ELSE CHOOSE n \in 1..Len(FindOrder) :
           /\ FindOrder[n] \notin g.exports
           /\ \A m \in 1..(n - 1) : FindOrder[m] \in g.exports

\* Lines 48-82 of WasmProgram::new: parse, link, look up.  An import the
\* guest does not declare makes a link call return FunctionNotFound; an
\* import the guest declares and the host never links (env.seed) may fail
\* the compilation find_function does.
new_prepare(g) ==
  IF ~g.valid THEN {"underrun while parsing Wasm binary"}
  ELSE IF "env.abort" \notin g.imports THEN {"function not found"}
  ELSE IF "colorConvert.hsvToRgbEncoded" \in g.imports /\ ~g.sig_ok
    THEN {"function signature mismatch"}
  ELSE IF FirstMissing(g) # 0 THEN {"function not found"}
  ELSE IF "env.seed" \in g.imports THEN {"Ok", "missing imported function"}
  ELSE {"Ok"}

\* Variant of wasm_new that signals initLayoutDone before the pixel locations
\* of the last strip.
wasm_new_done_early ==
  /\ wp_ret.op = "none"
  /\ \E prep \in new_prepare(guest) :
       IF prep # "Ok"
         THEN /\ wp_ret' = Sandbox("new", prep)
              /\ UNCHANGED <<wp_pixels, wp_calls>>
         ELSE LET n == Len(InitCalls(layout))
                  inits == IF n > 2
                             THEN SubSeq(InitCalls(layout), 1, n - 2)
                                    \o <<InitCalls(layout)[n], InitCalls(layout)[n - 1]>>
                             ELSE InitCalls(layout)
                  reads == ReadCalls(default_pixels(layout))
              IN \E done \in 0..(Len(inits) + Len(reads)), painter \in Painters :
                   /\ wp_calls' = Attempted(inits \o reads, done)
                   /\ wp_pixels' =
                        IF done < Len(inits) THEN <<>>
                        ELSE update_pixel_vals(default_pixels(layout), painter,
                                               done - Len(inits))
                   /\ wp_ret' = IF done < Len(inits) + Len(reads)
                                  THEN Sandbox("new", "trap") ELSE Returned("new")
  /\ UNCHANGED <<guest, wp_ticks, subject, verdict, layout, fgvars, worker, ctlvars,
                 loopvars>>

\* WasmProgram::new(layout, runtime, wasm_bin).
wasm_new ==
  /\ wp_ret.op = "none"
  /\ \E prep \in new_prepare(guest) :
       IF prep # "Ok"
         THEN /\ wp_ret' = Sandbox("new", prep)
              /\ UNCHANGED <<wp_pixels, wp_calls>>
         ELSE LET inits == InitCalls(layout)
                  reads == ReadCalls(default_pixels(layout))
              IN \E done \in 0..(Len(inits) + Len(reads)), painter \in Painters :
                   /\ wp_calls' = Attempted(inits \o reads, done)
                   /\ wp_pixels' =
                        IF done < Len(inits) THEN <<>>
                        ELSE update_pixel_vals(default_pixels(layout), painter,
                                               done - Len(inits))
                   /\ wp_ret' = IF done < Len(inits) + Len(reads)
                                  THEN Sandbox("new", "trap") ELSE Returned("new")
  /\ UNCHANGED <<guest, wp_ticks, subject, verdict, layout, fgvars, worker, ctlvars,
                 loopvars>>

\* WasmProgram::tick.  driver_loop, its caller, returns at the first tick
\* that fails.
wasm_tick ==
  /\ wp_ret.kind = "Ok"
  /\ wp_ticks < MaxTicks
  /\ wp_ticks' = wp_ticks + 1
  /\ LET ticks == <<Call("tick", <<>>)>>
         reads == ReadCalls(wp_pixels)
     IN \E done \in 0..(1 + Len(reads)), painter \in Painters :
          /\ wp_calls' = Attempted(ticks \o reads, done)
          /\ wp_pixels' = IF done = 0 THEN wp_pixels
                          ELSE update_pixel_vals(wp_pixels, painter, done - 1)
          /\ wp_ret' = IF done < 1 + Len(reads)
                         THEN Sandbox("tick", "trap") ELSE Returned("tick")
  /\ UNCHANGED <<guest, subject, verdict, layout, fgvars, worker, ctlvars, loopvars>>

WasmInit ==
  /\ DriverInit
  /\ LoopIdle
  /\ subject = NoSubject
  /\ verdict = "none"
  /\ guest \in Guests
  /\ wp_pixels = <<>>
  /\ wp_calls = <<>>
  /\ wp_ret = NoReturn
  /\ wp_ticks = 0

WasmNext ==
  \/ wasm_new
  \/ wasm_tick

WasmSpec == WasmInit /\ [][WasmNext]_vars

\* ------------------------------------------- driver_loop under the clock
MaxClock == 6        \* how far the clock runs, in steps of ClockStep

\* Values of Config.render_freq (usize).
RenderFreqs == {0, 1, 3, 250, 500, 999, 1000, 1001, 2000}

\* The clock is observed in steps of half a render period, at least 1 ms.
ClockStep == IF render_period \div 2 > 0 THEN render_period \div 2 ELSE 1

\* render_at.saturating_duration_since(Instant::now()).
saturating_duration_since(at, now) == IF at > now THEN at - now ELSE 0

\* Variant of next_render_at that counts the period from the present.
next_render_at_from_now(at, period, now) == now + period

\* render_at += render_period.
next_render_at(at, period, now) == at + period

\* The rest of the processes: untouched by driver_loop on its own.
others == <<layout, fgvars, worker, ctlvars, subject, verdict, wasmvars>>

\* start, line 83: Duration::from_millis((1000 / self.render_freq) as u64);
\* the division panics for render_freq = 0.
start_render_period ==
  /\ dl.pc = "start"
  /\ IF render_freq = 0
       THEN /\ dl' = [dl EXCEPT !.pc = "panicked", !.result = "Panic"]
            /\ UNCHANGED render_period
       ELSE /\ render_period' = 1000 \div render_freq
            /\ dl' = [dl EXCEPT !.pc = "enter"]
  /\ UNCHANGED <<render_freq, clock, render_at, timeout, others>>

\* driver_loop, lines 190-191.
loop_enter ==
  /\ dl.pc = "enter"
  /\ render_at' = clock
  /\ dl' = [dl EXCEPT !.pc = "top", !.playing = FALSE, !.first_at = clock]
  /\ UNCHANGED <<render_freq, render_period, clock, timeout, others>>

\* Line 193 and the call of recv_timeout.
loop_wait ==
  /\ dl.pc = "top"
  /\ timeout' = saturating_duration_since(render_at, clock)
  /\ dl' = [dl EXCEPT !.pc = "recv", !.wait_from = clock]
  /\ UNCHANGED <<render_freq, render_period, clock, render_at, others>>

\* recv_timeout returns a control action or Disconnected, lines 195-201.
loop_recv_action ==
  /\ dl.pc = "recv"
  /\ \E act \in {"Play", "Pause", "Exit", "Disconnected"} :
       dl' = CASE act = "Play"  -> [dl EXCEPT !.pc = "top", !.playing = TRUE,
                                                !.events = <<>>]
               [] act = "Pause" -> [dl EXCEPT !.pc = "top", !.playing = FALSE,
                                                !.events = <<>>]
               [] OTHER         -> [dl EXCEPT !.pc = "exited", !.events = <<>>,
                                                !.result = "Ok"]
  /\ UNCHANGED <<render_freq, render_period, clock, render_at, timeout, others>>

\* recv_timeout returns Timeout, lines 202-203 and, when not playing, 207.
loop_recv_timeout ==
  /\ dl.pc = "recv"
  /\ clock >= dl.wait_from + timeout
  /\ dl.timeouts < MaxTimeouts
  /\ IF dl.playing
       THEN /\ dl' = [dl EXCEPT !.pc = "tick", !.timeouts = @ + 1, !.events = <<>>]
            /\ UNCHANGED render_at
       ELSE /\ dl' = [dl EXCEPT !.pc = "top", !.timeouts = @ + 1, !.events = <<>>]
            /\ render_at' = next_render_at(render_at, render_period, clock)
  /\ UNCHANGED <<render_freq, render_period, clock, timeout, others>>

\* program.tick()?, line 204.
loop_tick ==
  /\ dl.pc = "tick"
  /\ \E o \in {"Ok", "Err"} :
       dl' = IF o = "Ok"
               THEN [dl EXCEPT !.pc = "write", !.events = Append(@, "tick")]
               ELSE [dl EXCEPT !.pc = "exited", !.events = Append(@, "tick"),
                               !.result = "ErrTick"]
  /\ UNCHANGED <<render_freq, render_period, clock, render_at, timeout, others>>

\* led_write.write(leds_iter(&program))?, lines 205 and 207.
loop_write ==
  /\ dl.pc = "write"
  /\ \E o \in {"Ok", "Err"} :
       IF o = "Ok"
         THEN /\ dl' = [dl EXCEPT !.pc = "top", !.events = Append(@, "write")]
              /\ render_at' = next_render_at(render_at, render_period, clock)
         ELSE /\ dl' = [dl EXCEPT !.pc = "exited", !.events = Append(@, "write"),
                                  !.result = "ErrWrite"]
              /\ UNCHANGED render_at
  /\ UNCHANGED <<render_freq, render_period, clock, timeout, others>>

\* Time passes while the loop waits, ticks or writes.
time_passes ==
  /\ dl.pc \in {"top", "recv", "tick", "write"}
  /\ \E n \in {1, 3} :
       /\ clock + n * ClockStep <= dl.first_at + MaxClock * ClockStep
       /\ clock' = clock + n * ClockStep
  /\ UNCHANGED <<render_freq, render_period, render_at, timeout, dl, others>>

TimingInit ==
  /\ DriverInit
  /\ layout = CtrlLayout
  /\ subject = NoSubject
  /\ verdict = "none"
  /\ WasmIdle
  /\ render_freq \in RenderFreqs
  /\ render_period = 0
  /\ clock \in {0, 7}
  /\ render_at = 0
  /\ timeout = 0
  /\ dl = NoLoop

TimingNext ==
  \/ start_render_period
  \/ loop_enter
  \/ loop_wait
  \/ loop_recv_action
  \/ loop_recv_timeout
  \/ loop_tick
  \/ loop_write
  \/ time_passes

TimingSpec == TimingInit /\ [][TimingNext]_vars

TypeOK ==
  /\ status \in {"NotPlaying", "Playing", "Paused"}
  /\ thread_handle \in Workers \cup {None}
  /\ ctrl_sender \in Workers \cup {None}
  /\ fgpc \in {"idle", "send", "stop_send", "stop_join", "start_send",
               "start_join", "dropped"}
  /\ spawned \in 0..MaxWorkers
  /\ cpc \in {"connect", "recv", "driver", "sleep", "exited"}
  /\ attempts \in 0..MaxAttempts
  /\ msgs \in 0..MaxMsgs
  /\ text_in \in 0..MaxMsgs
  /\ text_out \in 0..MaxMsgs
  /\ Len(frame_out) <= 1
  /\ slept \in {0, retry_time}
  /\ verdict \in {"none", "Ok", "Err"}
  /\ wp_ticks \in 0..MaxTicks
  /\ render_freq \in RenderFreqs
  /\ render_period \in Nat /\ clock \in Nat /\ render_at \in Nat /\ timeout \in Nat
  /\ dl.pc \in {"start", "panicked", "enter", "top", "recv", "tick", "write", "exited"}
  /\ dl.timeouts \in 0..MaxTimeouts
  /\ wp_ret.kind \in {"none", "Ok", "Err"}

\* ------------------------------------------------------- claim vocabulary
StartReturnedPlaying == [op |-> "start", kind |-> "Ok", val |-> "Playing"]

InitErrs == {"ErrSink", "ErrRuntime", "ErrWasm"}
LoopErrs == {"ErrTick", "ErrWrite"}

\* The sum of the strip lengths of a layout.
RECURSIVE SumLens(_)
SumLens(lay) == IF lay = <<>> THEN 0 ELSE Len(Head(lay)) + SumLens(Tail(lay))

AllZero(frame) == \A i \in 1..Len(frame) : frame[i] = <<0, 0, 0>>

RenderCount(ws) == Cardinality({i \in 1..Len(ws) : ws[i].kind = "render"})

\* The sink log ends with the one clear call, an all-zero frame with one value
\* per pixel of the layout, and everything before it is a rendered frame.
OneClearLast(w) ==
  LET ws == worker[w].writes
  IN /\ Len(ws) > 0
     /\ ws[Len(ws)].kind = "clear"
     /\ Len(ws[Len(ws)].frame) = SumLens(layout)
     /\ AllZero(ws[Len(ws)].frame)
     /\ \A i \in 1..(Len(ws) - 1) : ws[i].kind = "render"

\* ------------------------------------------------------------------ claims

\* C1: between calls status() equals the status the most recent call returned
\* (NotPlaying before any call and after a start that returned an error); a
\* call leaves only a status its operation can produce from the status it
\* found (play and pause leave NotPlaying alone); and
\* the status changes only along the state machine: NotPlaying -> Playing by a
\* start whose handshake succeeded, Playing -> Paused by pause, Paused ->
\* Playing by play, anything -> NotPlaying by stop, by the stop inside start,
\* or by a play/pause whose send failed.
C1_StatusFollowsStateMachine ==
  /\ [](fgpc = "idle" =>
          /\ lastRet.kind = "Ok" => status = lastRet.val
          /\ lastRet.kind # "Ok" => status = "NotPlaying"
          /\ lastRet.op = "start" => status \in {"Playing", "NotPlaying"}
          /\ lastRet.op = "stop" => status = "NotPlaying"
          /\ lastRet.op = "play" =>
               status \in (IF prev_status = "NotPlaying" THEN {"NotPlaying"}
                           ELSE {"Playing", "NotPlaying"})
          /\ lastRet.op = "pause" =>
               status \in (IF prev_status = "NotPlaying" THEN {"NotPlaying"}
                           ELSE {"Paused", "NotPlaying"}))
  /\ [][status' # status =>
          \/ /\ status = "NotPlaying" /\ status' = "Playing"
             /\ fgop = "start" /\ lastRet' = StartReturnedPlaying
          \/ /\ status = "Playing" /\ status' = "Paused"
             /\ fgop = "pause" /\ lastRet'.op = "pause"
          \/ /\ status = "Paused" /\ status' = "Playing"
             /\ fgop = "play" /\ lastRet'.op = "play"
          \/ /\ status' = "NotPlaying"
             /\ \/ fgop \in {"stop", "start"}
                \/ /\ fgop \in {"play", "pause"}
                   /\ ~worker[loc_handle].rx
                   /\ ~worker[loc_handle].gotExit]_vars

C1_Witness ==
  /\ fgpc = "idle"
  /\ lastRet = [op |-> "pause", kind |-> "Ok", val |-> "Paused"]
  /\ status = "Paused"
  /\ spawned = 2

\* C2: a worker the Driver holds a handle or sender for has built its LedSink
\* and its WasmProgram and has received Play in its loop; when start has
\* returned Ok(Playing) the Driver holds exactly the worker that start
\* spawned, and every later send of play/pause/stop targets such a worker.
C2_PlayingOnlyAfterInit ==
  /\ \A w \in Workers :
       (thread_handle = w \/ ctrl_sender = w) =>
         worker[w].sink /\ worker[w].prog /\ worker[w].gotPlay
  /\ (fgpc = "idle" /\ lastRet = StartReturnedPlaying) =>
       /\ thread_handle = spawned /\ ctrl_sender = spawned
       /\ worker[spawned].result \notin InitErrs
  /\ (fgpc \in {"stop_send", "stop_join"}) => worker[loc_handle].prog

C2_Witness ==
  /\ fgpc = "idle"
  /\ lastRet = StartReturnedPlaying
  /\ worker[thread_handle].pc = "recv"
  /\ worker[thread_handle].gotPlay

\* C3: after a start whose worker ended with an error of the sink factory, of
\* create_runtime or of WasmProgram::new, start has returned exactly that
\* error, status is NotPlaying and the Driver holds neither handle nor sender;
\* empty wasm bytes end in such an error whenever the sink was built.
C3_InitErrorSurfaced ==
  (fgpc = "idle" /\ lastRet.op = "start") =>
    /\ worker[spawned].result \in InitErrs =>
         /\ lastRet = [op |-> "start", kind |-> "Err",
                       val |-> worker[spawned].result]
         /\ status = "NotPlaying"
         /\ thread_handle = None
         /\ ctrl_sender = None
    /\ (worker[spawned].bin = "empty" /\ worker[spawned].sink) =>
         lastRet.kind = "Err"

C3_Witness ==
  /\ fgpc = "idle"
  /\ lastRet = [op |-> "start", kind |-> "Err", val |-> "ErrWasm"]
  /\ prev_status = "Paused"
  /\ worker[spawned].bin = "empty"

\* C4 (as claimed): a start whose handshake failed, the worker never having
\* received Play, has returned an error.
C4_FailedHandshakeReturnsError ==
  (fgpc = "idle" /\ lastRet.op = "start" /\ ~worker[spawned].gotPlay) =>
    lastRet.kind = "Err"

\* C5: at most one worker thread is running at any time; at the moment a
\* thread is spawned every earlier thread has finished and been joined, a
\* worker that was sent Exit has its clear write behind it, the Driver is in
\* the state stop leaves (NotPlaying, no handle, no sender), and the new
\* worker has not called the sink factory yet.
C5_AtMostOneWorker ==
  /\ [](Cardinality({w \in Workers : Alive(w)}) <= 1)
  /\ [][spawned' # spawned =>
          /\ \A w \in 1..spawned :
               /\ worker[w].pc \in {"done", "joined"}
               /\ worker[w].gotExit => OneClearLast(w)
          /\ status' = "NotPlaying"
          /\ thread_handle' = None
          /\ ctrl_sender' = None
          /\ worker'[spawned'].pc = "factory"
          /\ ~worker'[spawned'].sink]_vars

C5_Witness ==
  /\ fgop = "start"
  /\ fgpc = "start_send"
  /\ prev_status = "Playing"
  /\ exit_send = "Ok"
  /\ spawned = 2
  /\ worker[1].pc = "joined"
  /\ worker[2].sink

\* C6: when stop has returned, it returned NotPlaying, status is NotPlaying,
\* no worker thread is running and the Driver holds neither handle nor sender.
C6_StopLeavesNothingRunning ==
  (fgpc = "idle" /\ lastRet.op = "stop") =>
    /\ lastRet = [op |-> "stop", kind |-> "Ok", val |-> "NotPlaying"]
    /\ status = "NotPlaying"
    /\ thread_handle = None
    /\ ctrl_sender = None
    /\ \A w \in Workers : ~Alive(w)

C6_Witness ==
  /\ fgpc = "idle"
  /\ lastRet.op = "stop"
  /\ prev_status = "Playing"
  /\ exit_send = "Err"
  /\ \E w \in Workers :
       /\ worker[w].result \in LoopErrs
       /\ ~worker[w].gotExit
       /\ worker[w].gotPlay

\* C7: once a worker has been sent Exit and the foreground is past the join
\* of that worker, the worker has finished and the last frame it handed to
\* the sink is the clear frame: all zero, one value per pixel of the layout,
\* after every rendered frame.
C7_ClearIsLastFrameOnStop ==
  \A w \in Workers :
    (worker[w].gotExit /\ loc_handle # w) =>
      /\ worker[w].pc = "done"
      /\ OneClearLast(w)

C7_Witness ==
  /\ fgpc = "idle"
  /\ lastRet.op = "stop"
  /\ \E w \in Workers :
       /\ worker[w].gotExit
       /\ Len(worker[w].writes) = 2
       /\ worker[w].writes[1].kind = "render"
       /\ worker[w].writes[1].frame = <<(<<255, 0, 0>>), (<<255, 0, 0>>)>>

\* C8 (as claimed): every worker that built its LedSink and ended without a
\* panic made exactly one clear write, as its last sink write.
C8_ClearOnEveryExit ==
  \A w \in Workers :
    (worker[w].pc = "done" /\ worker[w].sink /\ worker[w].result # "Panic") =>
      OneClearLast(w)

\* C8 (amended): a worker that entered the render loop and ended without a
\* panic (Exit, disconnect, tick error, write error) made exactly one clear
\* write, as its last sink write; a worker whose sink or program construction
\* failed made no sink write at all.
C8_ClearOnEveryLoopExit ==
  \A w \in Workers :
    (worker[w].pc = "done" /\ worker[w].result # "Panic") =>
      /\ worker[w].prog => OneClearLast(w)
      /\ ~worker[w].prog => worker[w].writes = <<>>

C8_Witness ==
  \E w \in Workers :
    /\ worker[w].pc = "done"
    /\ worker[w].prog
    /\ ~worker[w].gotExit
    /\ worker[w].loopResult = "Ok"
    /\ worker[w].result = "Ok"
    /\ Len(worker[w].writes) = 2

\* C9: once tick or write has returned an error the worker is out of the
\* loop, it ticks no more and renders no more, a failed rendered write is the
\* loop's error, and the thread's result is the loop's result whatever the
\* clear write returned: the error stays, and Ok stays Ok.
C9_LoopErrorIsFinal ==
  /\ [](\A w \in Workers :
          /\ worker[w].loopResult \in LoopErrs =>
               worker[w].pc \in {"clear", "done"}
          /\ (\E i \in 1..Len(worker[w].writes) :
                worker[w].writes[i].kind = "render" /\ worker[w].writes[i].res = "Err")
               => worker[w].loopResult = "ErrWrite"
          /\ (worker[w].pc = "done" /\ worker[w].loopResult # "none"
                /\ worker[w].result # "Panic")
               => worker[w].result = worker[w].loopResult)
  /\ [][\A w \in Workers :
          (worker[w].loopResult \in LoopErrs /\ worker'[w].pc # "joined") =>
            /\ worker'[w].ticks = worker[w].ticks
            /\ RenderCount(worker'[w].writes) = RenderCount(worker[w].writes)
            /\ worker'[w].loopResult = worker[w].loopResult]_vars

C9_Witness ==
  \E w \in Workers :
    /\ worker[w].pc = "done"
    /\ worker[w].result = "ErrWrite"
    /\ Len(worker[w].writes) = 3
    /\ worker[w].writes[2].res = "Err"
    /\ worker[w].writes[3] = [kind |-> "clear", frame |-> <<>>, res |-> "Err"]

\* C10: while status is Paused and no call is in progress the worker sits in
\* its receive with playing = false; and as long as status is Paused no worker
\* ticks and the only sink write that can be added is a clear write.
C10_NoRenderWhilePaused ==
  /\ []((status = "Paused" /\ fgpc = "idle") =>
          /\ thread_handle # None
          /\ worker[thread_handle].pc = "recv"
          /\ ~worker[thread_handle].playing)
  /\ [][status = "Paused" =>
          \A w \in Workers :
            worker'[w].pc # "joined" =>
              /\ worker'[w].ticks = worker[w].ticks
              /\ \/ worker'[w].writes = worker[w].writes
                 \/ /\ Len(worker'[w].writes) = Len(worker[w].writes) + 1
                    /\ worker'[w].writes[Len(worker'[w].writes)].kind = "clear"]_vars

C10_Witness ==
  /\ fgpc = "idle"
  /\ status = "Paused"
  /\ worker[thread_handle].ticks = 1
  /\ worker[thread_handle].k = 2

\* The Driver holds worker w, reports Playing, no call is in progress and w
\* waits in recv_timeout with a deadline ahead.
PlayingAtRest(w) ==
  /\ fgpc = "idle"
  /\ status = "Playing"
  /\ thread_handle = w
  /\ worker[w].pc = "recv"
  /\ worker[w].k < MaxTimeouts

\* A Driver call has been issued, or the worker has left its loop.
Disturbed(w) == fgpc # "idle" \/ worker[w].pc \in {"clear", "done", "joined"}

\* C11: while the Driver reports Playing between calls, a worker waiting in
\* its receive has playing = true; from such a state, unless a Driver call is
\* issued or tick fails, the worker eventually has ticked and is at its sink
\* write, and a sink write that was entered eventually returns; the worker
\* enters the write only from the Timeout arm with playing set, with one more
\* tick counted, and leaving the write adds exactly one rendered frame, the
\* program's pixels, to the sink log; after a write that succeeded the worker
\* waits for the next deadline, still playing.
C11_PlayingEventuallyRenders ==
  /\ [](\A w \in Workers :
          (fgpc = "idle" /\ status = "Playing" /\ thread_handle = w
             /\ worker[w].pc = "recv") => worker[w].playing)
  /\ \A w \in Workers :
       PlayingAtRest(w) ~> (worker[w].pc = "write" \/ Disturbed(w))
  /\ \A w \in Workers :
       (worker[w].pc = "write") ~> (worker[w].pc # "write")
  /\ [][\A w \in Workers :
          /\ (worker[w].pc # "write" /\ worker'[w].pc = "write") =>
               /\ worker[w].pc = "recv"
               /\ worker[w].playing
               /\ worker'[w].playing
               /\ worker'[w].ticks = worker[w].ticks + 1
          /\ (worker[w].pc = "write" /\ worker'[w].pc # "write") =>
               /\ Len(worker'[w].writes) = Len(worker[w].writes) + 1
               /\ worker'[w].writes[Len(worker'[w].writes)].kind = "render"
               /\ worker'[w].writes[Len(worker'[w].writes)].frame =
                    leds_iter(worker[w].pixels)
               /\ worker'[w].writes[Len(worker'[w].writes)].res = "Ok" =>
                    /\ worker'[w].pc = "recv"
                    /\ worker'[w].playing]_vars

C11_Witness ==
  /\ fgpc = "idle"
  /\ lastRet = [op |-> "play", kind |-> "Ok", val |-> "Playing"]
  /\ prev_status = "Paused"
  /\ thread_handle # None
  /\ worker[thread_handle].pc = "write"
  /\ worker[thread_handle].playing
  /\ worker[thread_handle].ticks = 1
  /\ worker[thread_handle].writes = <<>>
  /\ worker[thread_handle].k = 1

\* C12: a play or pause whose send fails (the receiver is gone) enters stop:
\* it takes handle and sender, tries Exit (which fails too), joins the worker,
\* and when it has returned it returned NotPlaying, status is NotPlaying, the
\* Driver holds neither handle nor sender and no thread is running; a play or
\* pause that returned Playing or Paused had a successful send.
C12_FailedSendStops ==
  /\ []((fgpc = "idle" /\ lastRet.op \in {"play", "pause"}) =>
          /\ exit_send # "none" =>
               /\ lastRet.kind = "Ok" /\ lastRet.val = "NotPlaying"
               /\ status = "NotPlaying"
               /\ thread_handle = None
               /\ ctrl_sender = None
               /\ \A w \in Workers : ~Alive(w)
          /\ lastRet.val \in {"Playing", "Paused"} => exit_send = "none")
  /\ [][(fgpc = "send" /\ send_fails(ctrl_sender) /\ fgpc' # "send") =>
          /\ fgpc' = "stop_send"
          /\ loc_handle' = thread_handle
          /\ loc_sender' = ctrl_sender
          /\ thread_handle' = None
          /\ ctrl_sender' = None
          /\ lastRet' = lastRet]_vars
  /\ [][(fgop \in {"play", "pause"} /\ fgpc = "stop_join" /\ fgpc' # "stop_join") =>
          /\ worker[loc_handle].pc = "done"
          /\ exit_send = "Err"
          /\ status' = "NotPlaying"
          /\ lastRet' = [op |-> fgop, kind |-> "Ok", val |-> "NotPlaying"]]_vars

C12_Witness ==
  /\ fgpc = "idle"
  /\ lastRet = [op |-> "pause", kind |-> "Ok", val |-> "NotPlaying"]
  /\ prev_status = "Playing"
  /\ exit_send = "Err"
  /\ \E w \in Workers : worker[w].result = "ErrTick"

\* A step in which the foreground calls stop, play or pause.
IsPlainCall ==
  /\ fgpc = "idle"
  /\ fgop' # "start"
  /\ fgpc' # "dropped"
  /\ <<fgpc, fgop, lastRet, prev_status, exit_send>>' #
       <<fgpc, fgop, lastRet, prev_status, exit_send>>

\* C13: between calls the Driver holds no worker exactly when status is
\* NotPlaying, and then a call of play, pause or stop returns at once with
\* NotPlaying: it does not block in a send, spawns no thread, runs no worker
\* step (no sink factory call) and leaves layout, status, handle and sender
\* as they were.
C13_NoWorkerNoOp ==
  /\ [](fgpc = "idle" =>
          /\ (thread_handle = None) <=> (status = "NotPlaying")
          /\ (ctrl_sender = None) <=> (status = "NotPlaying"))
  /\ [][(IsPlainCall /\ status = "NotPlaying") =>
          /\ fgpc' = "idle"
          /\ lastRet'.op \in {"play", "pause", "stop"}
          /\ lastRet'.kind = "Ok"
          /\ lastRet'.val = "NotPlaying"
          /\ exit_send' = "none"
          /\ UNCHANGED <<layout, status, thread_handle, ctrl_sender, spawned,
                         worker>>]_vars

C13_Witness ==
  /\ fgpc = "idle"
  /\ lastRet = [op |-> "play", kind |-> "Ok", val |-> "NotPlaying"]
  /\ prev_status = "NotPlaying"
  /\ spawned = 1
  /\ worker[1].result = "Ok"

\* process_one has received a frame in this step.
Received == msgs' = msgs + 1

\* The request of the Text frame being processed, once it has deserialized.
IsRequest == frame_in.kind = "Text" /\ from_str(frame_in.text).ok
TheRequest == from_str(frame_in.text).val

\* The frame handed to send_message for frame_in is a response with an error
\* member and no result member, resp. the converse.
ErrorResponse(raw) ==
  /\ Len(frame_out) = 1
  /\ frame_out[1].kind = "Text"
  /\ DOMAIN frame_out[1].body = {"jsonrpc", "id", "error"}
  /\ frame_out[1].body.error = raw

ResultResponse(raw) ==
  /\ Len(frame_out) = 1
  /\ frame_out[1].kind = "Text"
  /\ DOMAIN frame_out[1].body = {"jsonrpc", "id", "result"}
  /\ frame_out[1].body.result = raw

\* C14: every Text frame the client sends answers the Text frame it has just
\* received, which is a request, and its id member is the raw text of that
\* request's id, in result responses and error responses alike, for the first
\* request of a session and for later ones.
C14_ResponseEchoesId ==
  \A i \in 1..Len(frame_out) :
    frame_out[i].kind = "Text" =>
      /\ IsRequest
      /\ "id" \in DOMAIN frame_out[i].body
      /\ frame_out[i].body.id = TheRequest.id
      /\ frame_out[i].body.jsonrpc = "\"2.0\""
      /\ ("result" \in DOMAIN frame_out[i].body) # ("error" \in DOMAIN frame_out[i].body)

C14_Witness ==
  /\ text_in = 2
  /\ text_out = 2
  /\ IsRequest
  /\ TheRequest.method = "run"
  /\ ErrorResponse(JsonStr("Invalid byte 33, offset 0."))
  /\ frame_out[1].body.id = "\"a\""
  /\ frame_out[1].res = "Ok"

\* C15 (as claimed): a request with an unknown method, or with params that do
\* not have the shape its method requires, has been answered with an error
\* response and the session goes on.
C15_DispatchErrorAnswered ==
  (IsRequest /\ validate(TheRequest) /\ ~from_jsonrpc(TheRequest).ok) =>
    /\ Len(frame_out) = 1
    /\ frame_out[1].kind = "Text"
    /\ "error" \in DOMAIN frame_out[1].body
    /\ cpc = "recv"

\* C16: a run request is always answered (unless the call is still in
\* progress); when the base64 text does not decode, start is not called and
\* the answer has the error member, the display string of the decode error,
\* and no result member; when start returned an error the answer has the
\* error member, the display string of that error, and no result member, and
\* the Driver's status is NotPlaying; when start returned a status the answer
\* is that status as result; every other handler answers with a result and no
\* error; and the session goes on whenever the transport took the answer.
C16_RunErrorsAnswered ==
  /\ (handler = "handle_run" /\ cpc # "driver") =>
       /\ called = "none" =>
            /\ ~base64_decode(wasm_of(TheRequest.params)).ok
            /\ ErrorResponse(JsonStr(to_string("BadWasmEncoding")))
       /\ (called = "start" /\ lastRet.kind = "Err") =>
            /\ lastRet.val \in InitErrs
            /\ ErrorResponse(JsonStr(to_string(lastRet.val)))
            /\ status = "NotPlaying"
       /\ (called = "start" /\ lastRet.kind = "Ok") =>
            ResultResponse(JsonStr(lastRet.val))
  /\ (handler \notin {"handle_run", "none"} /\ cpc # "driver") =>
       /\ Len(frame_out) = 1
       /\ frame_out[1].kind = "Text"
       /\ DOMAIN frame_out[1].body = {"jsonrpc", "id", "result"}
       /\ handler = "handle_reverse_auth" =>
            frame_out[1].body.result = "{\"name\":\"Local test\"}"
       /\ handler \in {"handle_get_status", "handle_play", "handle_pause", "handle_stop"} =>
            frame_out[1].body.result = JsonStr(status)
  /\ (handler # "none" /\ cpc # "driver") =>
       (frame_out[1].res = "Ok") <=> (cpc = "recv")

C16_Witness ==
  /\ handler = "handle_run"
  /\ called = "start"
  /\ lastRet = [op |-> "start", kind |-> "Err", val |-> "ErrWasm"]
  /\ ErrorResponse("\"wasm3: cannot load module\"")
  /\ frame_out[1].res = "Ok"
  /\ cpc = "recv"
  /\ status = "NotPlaying"
  /\ text_in = 2

\* C17: the step that receives a Ping hands exactly one frame to send_message,
\* a Pong with the Ping's payload; it invokes no Controller handler and no
\* Driver operation, leaves the Driver and the workers as they are, sends no
\* Text frame, and the session goes on whenever the transport took the Pong.
C17_PingPong ==
  [][(Received /\ frame_in'.kind = "Ping") =>
       /\ Len(frame_out') = 1
       /\ frame_out'[1].kind = "Pong"
       /\ frame_out'[1].body = frame_in'.data
       /\ handler' = "none"
       /\ called' = "none"
       /\ text_out' = text_out
       /\ UNCHANGED drvvars
       /\ (frame_out'[1].res = "Ok") <=> (cpc' = "recv")
       /\ (frame_out'[1].res # "Ok") <=>
            (cpc' = "sleep" /\ last_err' = "WebSocketError")]_vars

C17_Witness ==
  /\ frame_in.kind = "Ping"
  /\ frame_in.data = "p"
  /\ frame_out = <<[kind |-> "Pong", body |-> "p", res |-> "Ok"]>>
  /\ cpc = "recv"
  /\ status = "Playing"
  /\ attempts = 1

\* C18: the step that receives a Binary, Close or Pong frame ends the session
\* with the unexpected-message error: nothing is handed to send_message, no
\* Controller handler and no Driver operation is invoked, the Driver and the
\* workers stay as they are, and the client is in its backoff sleep.
C18_UnexpectedFrameEndsSession ==
  [][(Received /\ frame_in'.kind \in {"Binary", "Close", "Pong"}) =>
       /\ cpc' = "sleep"
       /\ last_err' = "UnexpectedMessage"
       /\ frame_out' = <<>>
       /\ text_out' = text_out
       /\ handler' = "none"
       /\ called' = "none"
       /\ UNCHANGED drvvars]_vars

C18_Witness ==
  /\ frame_in.kind = "Close"
  /\ cpc = "sleep"
  /\ last_err = "UnexpectedMessage"
  /\ frame_out = <<>>
  /\ status = "Playing"
  /\ text_out = 1

\* C19: in every state of a session the Text frames sent are at most the Text
\* frames received, and at most one more was received than sent; a process_one
\* sends at most one frame, and a Text frame only for a Text frame; a step
\* that sends a Text frame sends one, the answer to the request in hand; and a
\* frame is received only when the previous Text frame, if any, has its
\* answer sent.
C19_OnlyReplies ==
  /\ [](/\ text_out <= text_in
        /\ text_in <= text_out + 1
        /\ Len(frame_out) <= 1
        /\ (cpc = "recv" => text_out = text_in)
        /\ \A i \in 1..Len(frame_out) :
             frame_out[i].kind = "Text" => frame_in.kind = "Text")
  /\ [][/\ (text_out' # text_out /\ text_out' # 0) =>
             /\ text_out' = text_out + 1
             /\ text_out' = text_in'
             /\ frame_in'.kind = "Text"
             /\ Len(frame_out') = 1
             /\ frame_out'[1].kind = "Text"
        /\ Received =>
             /\ cpc = "recv"
             /\ text_out = text_in
             /\ frame_in.kind = "Text" =>
                  /\ Len(frame_out) = 1
                  /\ frame_out[1].kind = "Text"
                  /\ frame_out[1].res = "Ok"]_vars

C19_Witness ==
  /\ text_in = 2
  /\ text_out = 2
  /\ cpc = "recv"
  /\ frame_out[1].kind = "Text"
  /\ frame_out[1].res = "Ok"
  /\ called = "pause"
  /\ status = "Paused"

\* C20: the reconnect loop never exits; every error that ends a session, and
\* every failed connect, puts the client into a sleep of retry_time seconds;
\* the only step out of the sleep is another connect; and from the sleep the
\* client eventually attempts to connect again, whatever the number of earlier
\* attempts.
C20_ReconnectsForever ==
  /\ [](/\ cpc # "exited"
        /\ (cpc = "sleep" => slept = retry_time /\ last_err # "none")
        /\ (last_err # "none" => cpc = "sleep"))
  /\ [][/\ (cpc = "sleep" /\ cpc' # "sleep") => attempts' = attempts + 1
        /\ attempts' # attempts =>
             /\ cpc \in {"connect", "sleep"}
             /\ attempts' = attempts + 1
             /\ cpc' \in {"recv", "sleep"}
             /\ msgs' = msgs
             /\ UNCHANGED drvvars]_vars
  /\ []<>~(cpc = "sleep" /\ attempts < MaxAttempts)

C20_Witness ==
  /\ attempts = 2
  /\ cpc = "sleep"
  /\ last_err = "WebSocketError"
  /\ frame_in.kind = "Binary"
  /\ slept = retry_time

\* The Controller handler and the Driver operation bound to a request.
BoundHandler(kind) ==
  CASE kind = "ReverseAuth" -> "handle_reverse_auth"
    [] kind = "GetStatus"   -> "handle_get_status"
    [] kind = "Run"         -> "handle_run"
    [] kind = "Play"        -> "handle_play"
    [] kind = "Pause"       -> "handle_pause"
    [] kind = "Stop"        -> "handle_stop"

BoundOp(kind, wasm) ==
  CASE kind = "ReverseAuth" -> "none"
    [] kind = "GetStatus"   -> "status"
    [] kind = "Run"         -> IF base64_decode(wasm).ok THEN "start" ELSE "none"
    [] kind = "Play"        -> "play"
    [] kind = "Pause"       -> "pause"
    [] kind = "Stop"        -> "stop"

\* A step in which the foreground enters start, stop, play or pause, as far as
\* the Driver's own variables show it.
DriverEntered ==
  /\ fgpc = "idle"
  /\ <<fgpc, fgop, lastRet, prev_status, exit_send>>' #
       <<fgpc, fgop, lastRet, prev_status, exit_send>>

\* C21: the step that receives an accepted request invokes the handler bound
\* to its method and, through it, the bound Driver operation: run enters
\* start with the decoded bytes, play, pause and stop enter the operation of
\* their name, get_status reads status, reverse_auth calls nothing; the Driver
\* is entered on no other step, so once per request; reverse_auth and
\* get_status leave the Driver and the workers as they are; and the answer is
\* the outcome: the status the operation returned, the status read, or the
\* configured name whatever the challenge.
C21_MethodsBoundToDriver ==
  /\ [][(Received /\ frame_in'.kind = "Text" /\ from_str(frame_in'.text).ok
           /\ from_jsonrpc(from_str(frame_in'.text).val).ok) =>
          LET rpc == from_jsonrpc(from_str(frame_in'.text).val)
              op == BoundOp(rpc.kind, rpc.wasm)
          IN /\ handler' = BoundHandler(rpc.kind)
             /\ called' = op
             /\ op = "start" =>
                  /\ fgop' = "start"
                  /\ wasm_bin' = base64_decode(rpc.wasm).bin
                  /\ cpc' = "driver"
             /\ op \in {"play", "pause", "stop"} =>
                  /\ cpc' = "driver"
                  /\ \/ fgop' = op /\ fgpc' # "idle"
                     \/ lastRet'.op = op /\ fgpc' = "idle"
             /\ op \in {"none", "status"} => UNCHANGED drvvars]_vars
  /\ [][DriverEntered =>
          /\ Received
          /\ called' \in {"start", "play", "pause", "stop"}
          /\ cpc' = "driver"]_vars
  /\ [][cpc = "driver" => called' = called /\ handler' = handler]_vars
  /\ []((handler \in {"handle_play", "handle_pause", "handle_stop"}
           /\ cpc # "driver") =>
          /\ lastRet.op = called
          /\ ResultResponse(JsonStr(lastRet.val)))
  /\ []((handler = "handle_run" /\ called = "start" /\ cpc # "driver") =>
          /\ lastRet.op = "start"
          /\ lastRet.kind = "Ok" => ResultResponse(JsonStr(lastRet.val)))
  /\ [](handler = "handle_get_status" => ResultResponse(JsonStr(status)))
  /\ [](handler = "handle_reverse_auth" =>
          ResultResponse("{\"name\":" \o JsonStr(DriverName) \o "}"))

C21_Witness ==
  /\ handler = "handle_reverse_auth"
  /\ TheRequest.params = AuthParamsText("d")
  /\ frame_out[1].body.result = "{\"name\":\"Local test\"}"
  /\ status = "Playing"
  /\ lastRet = StartReturnedPlaying
  /\ text_out = 2

\* C22: a response validates if and only if its version is "2.0" and exactly
\* one of result and error is present, so one with both, one with neither and
\* one of any other version are rejected; a request fails validation if and
\* only if its version is not "2.0".
C22_ValidateIff ==
  verdict # "none" =>
    /\ subject.side = "response" =>
         (verdict = "Ok" <=>
            /\ subject.text.jsonrpc = "2.0"
            /\ ("result" \in DOMAIN subject.text) # ("error" \in DOMAIN subject.text))
    /\ subject.side = "request" =>
         (verdict = "Err" <=> subject.text.jsonrpc # "2.0")

C22_Witness ==
  /\ verdict = "Err"
  /\ subject.side = "response"
  /\ subject.text.jsonrpc = "2.0"
  /\ {"result", "error"} \subseteq DOMAIN subject.text

\* new or tick has returned Ok and the WasmProgram is there to be read.
ProgramLives == wp_ret.kind = "Ok"

SameShape(pix, lay) ==
  /\ Len(pix) = Len(lay)
  /\ \A i \in 1..Len(lay) : Len(pix[i]) = Len(lay[i])

\* C23: once WasmProgram::new has succeeded, pixels() has one entry per strip
\* of the layout, each of that strip's length, and this is so after every
\* successful tick, however many.
C23_FrameShape == ProgramLives => SameShape(wp_pixels, layout)

C23_Witness ==
  /\ wp_ret = Returned("tick")
  /\ wp_ticks = 2
  /\ layout = LayoutOf(<<2, 0>>)
  /\ wp_pixels = <<<<(<<0, 0, 255>>), (<<0, 1, 255>>)>>, <<>>>>

\* The calls the layout initialisation is to make from strip i on, and from
\* pixel j of strip i on.
RECURSIVE LocsFrom(_, _, _)
LocsFrom(lay, i, j) ==
  IF j > Len(lay[i]) THEN <<>>
  ELSE <<[fn |-> "initLayoutSetPixelLoc",
          args |-> <<i - 1, j - 1, lay[i][j][1], lay[i][j][2]>>]>>
         \o LocsFrom(lay, i, j + 1)

RECURSIVE StripsFrom(_, _)
StripsFrom(lay, i) ==
  IF i > Len(lay) THEN <<>>
  ELSE <<[fn |-> "initLayoutSetStripLen", args |-> <<i - 1, Len(lay[i])>>]>>
         \o LocsFrom(lay, i, 1) \o StripsFrom(lay, i + 1)

\* One read of every pixel value, in layout order, from pixel j of strip i on.
RECURSIVE ReadsFrom(_, _, _)
ReadsFrom(lay, i, j) ==
  IF i > Len(lay) THEN <<>>
  ELSE IF j > Len(lay[i]) THEN ReadsFrom(lay, i + 1, 1)
  ELSE <<[fn |-> "getPixelRed", args |-> <<i - 1, j - 1>>],
         [fn |-> "getPixelGrn", args |-> <<i - 1, j - 1>>],
         [fn |-> "getPixelBlu", args |-> <<i - 1, j - 1>>]>>
         \o ReadsFrom(lay, i, j + 1)

ExpectedNew(lay) ==
  <<[fn |-> "initLayoutSetNumStrips", args |-> <<Len(lay)>>]>>
    \o StripsFrom(lay, 1)
    \o <<[fn |-> "initLayoutDone", args |-> <<>>]>>
    \o ReadsFrom(lay, 1, 1)

IsPrefix(p, q) == Len(p) <= Len(q) /\ SubSeq(q, 1, Len(p)) = p

\* C24: the guest calls of WasmProgram::new are, in this order,
\* initLayoutSetNumStrips(n); for each strip i in layout order
\* initLayoutSetStripLen(i, len_i) and then initLayoutSetPixelLoc(i, j, x, y)
\* for each of its pixels in order; initLayoutDone; one read of every pixel
\* value.  A new that fails has made a prefix of them, the guest tick is not
\* among them, and for a layout without strips they are
\* initLayoutSetNumStrips(0), initLayoutDone, with an empty frame.
C24_InitOrder ==
  wp_ret.op = "new" =>
    /\ IsPrefix(wp_calls, ExpectedNew(layout))
    /\ wp_ret.kind = "Ok" => wp_calls = ExpectedNew(layout)
    /\ \A n \in 1..Len(wp_calls) : wp_calls[n].fn # "tick"
    /\ (wp_ret.kind = "Ok" /\ layout = <<>>) =>
         /\ wp_calls = <<[fn |-> "initLayoutSetNumStrips", args |-> <<0>>],
                         [fn |-> "initLayoutDone", args |-> <<>>]>>
         /\ wp_pixels = <<>>

C24_Witness ==
  /\ wp_ret = Returned("new")
  /\ layout = LayoutOf(<<1, 2>>)
  /\ Len(wp_calls) = 16
  /\ wp_calls[3].fn = "initLayoutSetPixelLoc"
  /\ wp_calls[4] = [fn |-> "initLayoutSetStripLen", args |-> <<1, 2>>]
  /\ wp_calls[7].fn = "initLayoutDone"

\* One getPixelVal call per pixel, in layout order, from pixel j of strip i on.
RECURSIVE PackedReadsFrom(_, _, _)
PackedReadsFrom(lay, i, j) ==
  IF i > Len(lay) THEN <<>>
  ELSE IF j > Len(lay[i]) THEN PackedReadsFrom(lay, i + 1, 1)
  ELSE <<[fn |-> "getPixelVal", args |-> <<i - 1, j - 1>>]>>
         \o PackedReadsFrom(lay, i, j + 1)

\* C25: a tick that succeeds has called the guest tick exactly once and then
\* getPixelVal(i, j) exactly once for every pixel (i, j) in layout order, the
\* frame entry (i, j) being decoded from the one value returned for it.
C25_TickReadsPacked ==
  wp_ret = Returned("tick") =>
    wp_calls = <<[fn |-> "tick", args |-> <<>>]>> \o PackedReadsFrom(layout, 1, 1)

\* The exports a guest is required to provide.
RequiredExports ==
  {"initLayoutSetNumStrips", "initLayoutSetStripLen", "initLayoutSetPixelLoc",
   "initLayoutDone", "tick", "getPixelVal"}

\* C26: for a guest that provides every required export, WasmProgram::new
\* succeeds (unless a guest call traps) whichever of the optional imports
\* env.seed and colorConvert.hsvToRgbEncoded the guest declares; for a guest
\* that lacks a required export it fails with a sandbox error before any
\* guest function is called.
C26_OptionalImportsRequiredExports ==
  wp_ret.op = "new" =>
    /\ (/\ guest.valid
        /\ guest.sig_ok
        /\ "env.abort" \in guest.imports
        /\ RequiredExports \subseteq guest.exports) =>
         wp_ret.err \in {"none", "trap"}
    /\ ~(RequiredExports \subseteq guest.exports) =>
         wp_ret.kind = "Err" /\ wp_calls = <<>>

\* Calls of the LedSink factory made so far, over all worker threads.
RECURSIVE FactoryCallsUpTo(_)
FactoryCallsUpTo(n) ==
  IF n = 0 THEN 0 ELSE worker[n].factory_calls + FactoryCallsUpTo(n - 1)

FactoryCalls == FactoryCallsUpTo(MaxWorkers)

\* start calls made so far: each spawns one thread once its stop is through.
StartCalls ==
  spawned + (IF fgop = "start" /\ fgpc \in {"stop_send", "stop_join"} THEN 1 ELSE 0)

StartInProgress == fgop = "start" /\ fgpc \notin {"idle", "dropped"}

\* C27: the factory is invoked once per start call, by the worker thread of
\* that start and before its program is loaded; no step of the foreground
\* (stop, play, pause) invokes it; so whenever no start is in progress the
\* number of factory calls equals the number of start calls, and it never
\* exceeds it.
C27_FactoryOncePerStart ==
  /\ [](FactoryCalls <= StartCalls)
  /\ [](~StartInProgress => FactoryCalls = StartCalls)
  /\ [](\A w \in Workers :
          /\ worker[w].factory_calls <= 1
          /\ worker[w].prog => worker[w].factory_calls = 1)
  /\ [][\A w \in Workers :
          worker'[w].factory_calls # worker[w].factory_calls =>
            /\ worker[w].pc = "factory"
            /\ ~worker[w].prog
            /\ worker'[w].factory_calls = worker[w].factory_calls + 1
            /\ UNCHANGED fgvars]_vars

C27_Witness ==
  /\ spawned = 2
  /\ FactoryCalls = 2
  /\ fgpc = "idle"
  /\ lastRet.op = "pause"
  /\ worker[1].pc = "joined"
  /\ worker[2].result = "ErrSink"

\* driver_loop is between two iterations or waiting in recv_timeout.
AtReceive == dl.pc \in {"top", "recv"}

\* C28: in the render loop render_at advances by exactly one render_period
\* on every timeout, playing or paused, and never on a control action; the
\* wait is max(0, render_at - now); so after k timeouts render_at is its
\* first value plus k render periods, however long ticks and writes took;
\* a deadline already passed gives a zero wait and is not skipped; and a tick
\* is followed by exactly one write before the next receive.
C28_AbsoluteDeadlines ==
  /\ [](AtReceive => render_at = dl.first_at + dl.timeouts * render_period)
  /\ [][(dl.pc = "recv" /\ dl'.pc = "top" /\ dl'.timeouts = dl.timeouts + 1) =>
          (~dl.playing /\ render_at' = render_at + render_period)]_vars
  /\ [][(dl.pc = "write" /\ dl'.pc = "top") =>
          render_at' = render_at + render_period]_vars
  /\ [][(dl.pc = "recv" /\ dl'.timeouts = dl.timeouts) => render_at' = render_at]_vars
  /\ [](dl.pc = "recv" =>
          /\ timeout >= 0
          /\ render_at >= dl.wait_from => timeout = render_at - dl.wait_from
          /\ render_at <= dl.wait_from => timeout = 0)
  /\ [][(dl.pc = "recv" /\ dl'.timeouts = dl.timeouts + 1) =>
          clock >= render_at]_vars
  /\ [](AtReceive => dl.events \in {<<>>, <<"tick", "write">>})
  /\ [](dl.pc = "write" => dl.events = <<"tick">>)
  /\ [][(dl.pc = "tick" /\ dl'.pc \notin {"tick", "exited"}) => dl'.pc = "write"]_vars

\* After an overrun of more than a period: the second deadline is waited for
\* with a zero timeout although the clock is far past it.
C28_Witness ==
  /\ dl.pc = "recv"
  /\ dl.playing
  /\ dl.timeouts = 1
  /\ dl.events = <<"tick", "write">>
  /\ render_period = 4
  /\ render_at = dl.first_at + 4
  /\ clock >= render_at + 4
  /\ timeout = 0

\* C29: for every positive render_freq, start computes the render period
\* without failing, the interval between consecutive render deadlines is
\* 1000 ms / render_freq, and it is strictly positive.
C29_PositivePeriod ==
  (render_freq > 0 /\ dl.pc # "start") =>
    /\ dl.pc # "panicked"
    /\ render_period = 1000 \div render_freq
    /\ render_period > 0
    /\ AtReceive => render_at - dl.first_at = dl.timeouts * (1000 \div render_freq)

\* The params shape a method admits.
ShapeFits(method, params) ==
  CASE method \in {"get_status", "play", "pause", "stop"} -> params = "[]"
    [] method = "run" -> params \in {"{\"wasm\":\"bW9k\"}", "{\"wasm\":\"!\"}"}
    [] method = "reverse_auth" ->
         params \in {"{\"challenge\":\"c\"}", "{\"challenge\":\"d\"}"}
    [] OTHER -> FALSE

\* A Text payload that fails JSON parsing, the version check, the method
\* lookup or the parameter shape check.
Malformed(text) ==
  \/ ~({"jsonrpc", "id", "method", "params"} \subseteq DOMAIN text)
  \/ text.jsonrpc # "2.0"
  \/ text.method \notin {"reverse_auth", "get_status", "run", "play", "pause", "stop"}
  \/ ~ShapeFits(text.method, text.params)

\* C30: a Text frame that fails JSON parsing, version validation, method
\* lookup or its method's parameter shape check invokes no handler and no
\* Driver operation, and the step that receives it leaves the Driver's status,
\* handles and workers as they were.
C30_MalformedRequestTouchesNothing ==
  /\ [][(Received /\ frame_in'.kind = "Text" /\ Malformed(frame_in'.text)) =>
          /\ handler' = "none"
          /\ called' = "none"
          /\ cpc' # "driver"
          /\ UNCHANGED drvvars]_vars
  /\ []((frame_in.kind = "Text" /\ Malformed(frame_in.text)) =>
          /\ called = "none"
          /\ cpc # "driver"
          /\ frame_out = <<>>)

C30_Witness ==
  /\ IsRequest
  /\ frame_in.text.method = "stop"
  /\ frame_in.text.params = "{\"challenge\":\"c\"}"
  /\ last_err = "RequestDeserialization"
  /\ status = "Playing"
  /\ thread_handle # None
  /\ worker[thread_handle].pc = "recv"
  /\ lastRet = StartReturnedPlaying

\* The Driver operations.
DriverOps == {"start", "stop", "play", "pause"}

C32_HandleSenderStatus ==
  fgpc = "idle" =>
    /\ thread_handle = ctrl_sender
    /\ (thread_handle = None /\ ctrl_sender = None) \/
         (thread_handle # None /\ ctrl_sender # None)
    /\ status = "NotPlaying" <=> (thread_handle = None /\ ctrl_sender = None)
    /\ status \in {"Playing", "Paused"} <=>
         (thread_handle \in Workers /\ ctrl_sender \in Workers)

\* Between operations, the second worker is held and was paused.
C32_Witness ==
  /\ fgpc = "idle"
  /\ status = "Paused"
  /\ thread_handle = 2
  /\ ctrl_sender = 2
  /\ lastRet.op = "pause"

\* Worker w left driver_loop by itself, through the `?` of tick or of the sink
\* write.
SelfEnded(w) == w # None /\ worker[w].loopResult \in LoopErrs

\* The worker the operation in progress is dealing with.
HeldWorker == IF loc_handle # None THEN loc_handle ELSE thread_handle

\* C33: a step of the worker thread, the one in which tick or the sink write
\* fails included, leaves status, thread_handle and ctrl_sender as they are;
\* between operations a Driver whose worker ended by itself still holds its
\* handle and reports the status the last operation returned, Playing or
\* Paused; the next stop, play or pause blocks, joins that worker and returns
\* NotPlaying with status NotPlaying, and the next start joins it before it
\* spawns the new thread.
C33_StaleStatusUntilNextCall ==
  /\ [][(fgpc = "idle" /\ fgpc' = "idle") =>
          UNCHANGED <<status, thread_handle, ctrl_sender>>]_vars
  /\ []((fgpc = "idle" /\ SelfEnded(thread_handle)) =>
          /\ status \in {"Playing", "Paused"}
          /\ lastRet.kind = "Ok"
          /\ lastRet.val = status)
  /\ [][(fgpc = "idle" /\ SelfEnded(thread_handle) /\ fgpc' \notin {"idle", "dropped"}) =>
          /\ fgpc' \in {"send", "stop_send"}
          /\ status' = status]_vars
  /\ [][(fgpc # "idle" /\ fgpc' = "idle" /\ fgop \in {"stop", "play", "pause"}
            /\ SelfEnded(HeldWorker)) =>
          /\ fgpc = "stop_join"
          /\ worker[HeldWorker].pc = "done"
          /\ status' = "NotPlaying"
          /\ thread_handle' = None
          /\ ctrl_sender' = None
          /\ lastRet' = [op |-> fgop, kind |-> "Ok", val |-> "NotPlaying"]]_vars
  /\ [][(fgop = "start" /\ fgpc \in {"stop_send", "stop_join"}
            /\ fgpc' \notin {"stop_send", "stop_join"}) =>
          /\ fgpc = "stop_join"
          /\ worker[loc_handle].pc = "done"
          /\ status' = "NotPlaying"
          /\ fgpc' = "start_send"]_vars

\* A stop called while the worker had ended on a failed sink write returned
\* NotPlaying; the Driver had been reporting Playing.
C33_Witness ==
  /\ fgpc = "idle"
  /\ lastRet = [op |-> "stop", kind |-> "Ok", val |-> "NotPlaying"]
  /\ prev_status = "Playing"
  /\ exit_send = "Err"
  /\ worker[1].result = "ErrWrite"

\* The step in which connect_and_process_until_error returns its error.
SessionEnds == cpc # "sleep" /\ cpc' = "sleep"

\* The step in which the reconnect loop calls connect.
Reconnects == attempts' # attempts

\* No session is open: the client sleeps or is about to connect.
Disconnected == cpc \in {"connect", "sleep"}

\* C34: the step in which a session ends and the step in which the client
\* connects again leave the whole Driver as it is: its fields, the position
\* of the foreground (no operation is entered) and every worker thread; the
\* Driver is never dropped; while no session is open no Driver operation is
\* in progress, the Driver's fields change in no step, and a worker waiting
\* for its deadline can take its Timeout arm and render.
C34_ReconnectKeepsDriver ==
  /\ [][(SessionEnds \/ Reconnects) => UNCHANGED drvvars]_vars
  /\ [](fgpc # "dropped")
  /\ [](Disconnected => fgpc = "idle")
  /\ [][(Disconnected /\ Disconnected') =>
          UNCHANGED <<status, thread_handle, ctrl_sender, spawned, lastRet>>]_vars
  /\ [](\A w \in Workers :
          (Disconnected /\ worker[w].pc = "recv" /\ worker[w].k < MaxTimeouts) =>
            ENABLED (worker_timeout(w) /\ UNCHANGED <<ctlvars, libvars>>))

\* After the second connection attempt the client sleeps once more; the
\* program started earlier is writing its second frame to the sink.
C34_Witness ==
  /\ cpc = "sleep"
  /\ attempts = 2
  /\ last_err = "UnexpectedMessage"
  /\ status = "Playing"
  /\ thread_handle = 1
  /\ worker[1].pc = "write"
  /\ worker[1].ticks = 2

\* The frame is a Text frame with a run request that Request::from_jsonrpc
\* accepts; the text of its wasm member.
IsRun(frame) ==
  /\ frame.kind = "Text"
  /\ from_str(frame.text).ok
  /\ from_jsonrpc(from_str(frame.text).val).ok
  /\ from_jsonrpc(from_str(frame.text).val).kind = "Run"

WasmOf(frame) == from_jsonrpc(from_str(frame.text).val).wasm

\* Texts that are base64: groups of four characters of the base64 alphabet.
\* "!" is not in the alphabet.
Base64Texts == {"", "bW9k"}

BadBase64Run(frame) == IsRun(frame) /\ WasmOf(frame) \notin Base64Texts
DecodableRun(frame) == IsRun(frame) /\ WasmOf(frame) \in Base64Texts

\* C35: the step that receives a run request whose wasm text is not base64
\* enters no Driver operation and leaves the Driver, a running worker
\* included, as it is, and answers with the decode error; as long as that
\* request is the current frame, start has not been called for it.  The step
\* that receives a run request whose wasm text decodes enters start, which
\* takes the handle and the sender of a previous worker and stops it first;
\* and when start has returned an error, one of the initialization errors,
\* status is NotPlaying, the Driver holds no worker and no worker thread is
\* running, whatever ran before.
C35_BadBase64KeepsProgram ==
  /\ [][(Received /\ BadBase64Run(frame_in')) =>
          /\ UNCHANGED drvvars
          /\ handler' = "handle_run"
          /\ called' = "none"
          /\ cpc' # "driver"
          /\ ErrorResponse(JsonStr(to_string("BadWasmEncoding")))']_vars
  /\ [](BadBase64Run(frame_in) => called = "none")
  /\ [][(Received /\ DecodableRun(frame_in')) =>
          /\ handler' = "handle_run"
          /\ called' = "start"
          /\ cpc' = "driver"
          /\ fgop' = "start"
          /\ thread_handle' = None
          /\ ctrl_sender' = None
          /\ IF thread_handle # None
               THEN fgpc' = "stop_send" /\ loc_handle' = thread_handle
               ELSE fgpc' = "start_send"]_vars
  /\ []((fgpc = "idle" /\ lastRet.op = "start" /\ lastRet.kind = "Err") =>
          /\ lastRet.val \in InitErrs
          /\ status = "NotPlaying"
          /\ thread_handle = None
          /\ ctrl_sender = None
          /\ \A w \in Workers : ~Alive(w))

\* A run request with the wasm text "!" has been answered with the decode
\* error while the program started before is being rendered.
C35_Witness ==
  /\ BadBase64Run(frame_in)
  /\ ErrorResponse("\"Invalid byte 33, offset 0.\"")
  /\ cpc = "recv"
  /\ status = "Playing"
  /\ thread_handle = 1
  /\ lastRet = StartReturnedPlaying
  /\ worker[1].pc = "write"

====
